---- MODULE Spec2Model ----
(***************************************************************************)
(* A model of tc2csv's streamlit_app.py: the form-definition field         *)
(* extractor (parse_form_fields_separated), the unique_id pass of the      *)
(* "Select Fields" tab, and the filter / template compilers                *)
(* (generate_filter_condition, generate_freemarker_template,               *)
(* generate_dual_templates).                                               *)
(*                                                                         *)
(* JSON values are tagged records [kind, val]; a JSON object is the        *)
(* sequence of its [key, value] items in document order (Python dicts      *)
(* iterate in insertion order).  Python strings are TLA+ strings.  The     *)
(* values stored in a field dict are strings; Python's None is the         *)
(* string None below, and a key that a dict does not have is Missing.      *)
(* The documents enumerated here carry strings (or null, or nothing) in    *)
(* the positions the extractor reads as identifiers, names and types.      *)
(***************************************************************************)
EXTENDS Integers, Sequences, FiniteSets, TLC

VARIABLES
    form_definition,     \* st.session_state.form_definition
    parsed,              \* result of the last parse_form_fields_separated call
    fields,              \* Tab 2: main_fields + repeating_fields with unique_id
    filters,             \* the ordered filter criteria handed to the compilers
    selected_fields,     \* st.session_state.selected_fields
    selection_order,     \* the unique_ids of selected_fields in the order they were ticked
                         \* (kept by nothing in the script: selected_fields is a set)
    main_condition,      \* generate_dual_templates: main_condition
    repeat_condition,    \* generate_dual_templates: repeat_condition
    main_template,       \* st.session_state.main_template
    repeat_template,     \* st.session_state.repeat_template
    generated_template,  \* st.session_state.generated_template
    json_payload,        \* st.session_state.json_payload, as json.loads reads it
    payload_fields,      \* st.session_state.payload_fields
    field_mappings,      \* st.session_state.field_mappings, items in insertion order
    json_template,       \* st.session_state.json_template
    pc                   \* which step of the script ran last

payloadVars == <<json_payload, payload_fields, field_mappings, json_template>>

vars == <<form_definition, parsed, fields, filters, selected_fields, selection_order,
          main_condition, repeat_condition, main_template, repeat_template,
          generated_template, payloadVars, pc>>

----------------------------------------------------------------------------
(* JSON values and the Python operations the code applies to them *)

JNull == [kind |-> "null", val |-> 0]
JStr(s) == [kind |-> "str", val |-> s]
JNum(n) == [kind |-> "num", val |-> n]
JBool(b) == [kind |-> "bool", val |-> b]
JList(s) == [kind |-> "list", val |-> s]
JDict(items) == [kind |-> "dict", val |-> items]
KV(k, v) == [key |-> k, value |-> v]

None == "<None>"
Missing == "<missing>"

IsDict(v) == v.kind = "dict"
IsList(v) == v.kind = "list"

\* bool(v): the truth value Python gives a value in `if v` and `v or w`
Truthy(v) ==
    CASE v.kind = "null" -> FALSE
      [] v.kind = "str"  -> v.val # ""
      [] v.kind = "num"  -> v.val # 0
      [] v.kind = "bool" -> v.val
      [] v.kind = "list" -> v.val # <<>>
      [] v.kind = "dict" -> v.val # <<>>

PyOr(a, b) == IF Truthy(a) THEN a ELSE b

HasKey(d, k) == \E i \in 1..Len(d.val) : d.val[i].key = k

\* d.get(k, default)
GetDefault(d, k, default) ==
    IF HasKey(d, k)
    THEN d.val[CHOOSE i \in 1..Len(d.val) : d.val[i].key = k].value
    ELSE default

\* d.get(k)
Get(d, k) == GetDefault(d, k, JNull)

\* the values of a dict in iteration order: [v for k, v in d.items()]
DictValues(d) == [i \in 1..Len(d.val) |-> d.val[i].value]

\* the value as it is stored in a field dict and rendered by an f-string
Scalar(v) ==
    CASE v.kind = "str"  -> v.val
      [] v.kind = "null" -> None

RECURSIVE RemoveSpaces(_)
\* s.replace(' ', '')
RemoveSpaces(s) ==
    IF s = "" THEN ""
    ELSE (IF Head(s) = " " THEN "" ELSE Head(s)) \o RemoveSpaces(Tail(s))

MaxIdLen == 19

\* s[:19]
Truncate(s) == IF Len(s) <= MaxIdLen THEN s ELSE SubSeq(s, 1, MaxIdLen)

\* a faulty variant of CleanId: the slice is left out
CleanIdNoTruncate(answer_id) == RemoveSpaces(answer_id)

\* clean_id = str(answer_id).replace(' ', '')[:19]
CleanId(answer_id) == Truncate(RemoveSpaces(answer_id))

----------------------------------------------------------------------------
(* parse_form_fields_separated *)

\* the three results of the call, and whether the call raised
EmptyResult ==
    [main_fields |-> <<>>, repeating_fields |-> <<>>,
     repeating_sections |-> <<>>, error |-> FALSE]

\* an exception leaves the caller with no result
Raised ==
    [main_fields |-> <<>>, repeating_fields |-> <<>>,
     repeating_sections |-> <<>>, error |-> TRUE]

SectionLabel(section) == Scalar(PyOr(Get(section, "name"), Get(section, "label")))

\* field_data of extract_from_section
FieldData(section, answer, answer_id, answer_name, answer_type, page_name, page_label, is_repeating, section_name) ==
    [id                |-> Scalar(answer_id),
     clean_id          |-> CleanId(Scalar(answer_id)),
     name              |-> Scalar(answer_name),
     type              |-> Scalar(answer_type),
     page              |-> Scalar(PyOr(page_name, page_label)),
     section           |-> SectionLabel(section),
     question          |-> Scalar(PyOr(PyOr(Get(answer, "question"), Get(answer, "text")),
                                       answer_name)),
     path              |-> "answers." \o CleanId(Scalar(answer_id)),
     repeating_section |-> IF is_repeating THEN Scalar(section_name) ELSE None,
     display_name      |-> IF is_repeating
                           THEN Scalar(answer_name) \o " (Repeating)"
                           ELSE Scalar(answer_name),
     unique_id         |-> Missing]

HasSection(repeating_sections, name) ==
    \E i \in 1..Len(repeating_sections) : repeating_sections[i].name = name

\* a faulty variant of AddField: the registry is left as it is
AddFieldNoRegistry(acc, field_data, section, page_name, is_repeating, section_name) ==
    IF is_repeating
    THEN [acc EXCEPT !.repeating_fields = Append(@, field_data)]
    ELSE [acc EXCEPT !.main_fields = Append(@, field_data)]

\* "Add to appropriate list"
AddField(acc, field_data, section, page_name, is_repeating, section_name) ==
    IF is_repeating
    THEN [acc EXCEPT
            !.repeating_fields = Append(@, field_data),
            !.repeating_sections =
                IF Truthy(section_name) /\ ~HasSection(@, Scalar(section_name))
                THEN Append(@, [name    |-> Scalar(section_name),
                                page    |-> Scalar(page_name),
                                section |-> SectionLabel(section)])
                ELSE @]
    ELSE [acc EXCEPT !.main_fields = Append(@, field_data)]

\* one pass of the loop over an `answers` array
ArrayAnswer(acc, section, answer, page_name, page_label, is_repeating, section_name) ==
    IF acc.error THEN acc
    ELSE IF ~IsDict(answer) THEN Raised    \* answer.get: AttributeError
    ELSE
      LET answer_id   == PyOr(PyOr(Get(answer, "label"), Get(answer, "id")),
                              Get(answer, "uniqueId"))
          answer_name == PyOr(PyOr(PyOr(Get(answer, "name"), Get(answer, "text")),
                                   Get(answer, "question")), answer_id)
          answer_type == PyOr(PyOr(Get(answer, "type"), Get(answer, "questionType")),
                              JStr("text"))
      IN IF Truthy(answer_id) /\ Truthy(answer_name)
         THEN AddField(acc,
                       FieldData(section, answer, answer_id, answer_name, answer_type,
                                 page_name, page_label, is_repeating, section_name),
                       section, page_name, is_repeating, section_name)
         ELSE acc

\* one pass of the loop over the items of an `answers` object
ObjectAnswer(acc, section, key, answer, page_name, page_label, is_repeating, section_name) ==
    IF acc.error \/ ~IsDict(answer) THEN acc
    ELSE
      LET answer_id   == PyOr(PyOr(Get(answer, "label"), Get(answer, "id")), JStr(key))
          answer_name == PyOr(PyOr(PyOr(Get(answer, "name"), Get(answer, "text")),
                                   Get(answer, "question")), JStr(key))
          answer_type == PyOr(PyOr(Get(answer, "type"), Get(answer, "questionType")),
                              JStr("text"))
      IN AddField(acc,
                  FieldData(section, answer, answer_id, answer_name, answer_type,
                            page_name, page_label, is_repeating, section_name),
                  section, page_name, is_repeating, section_name)

RECURSIVE ArrayAnswers(_, _, _, _, _, _, _, _)
ArrayAnswers(acc, section, answers, i, page_name, page_label, is_repeating, section_name) ==
    IF i > Len(answers) THEN acc
    ELSE ArrayAnswers(ArrayAnswer(acc, section, answers[i], page_name, page_label,
                                  is_repeating, section_name),
                      section, answers, i + 1, page_name, page_label,
                      is_repeating, section_name)

RECURSIVE ObjectAnswers(_, _, _, _, _, _, _, _)
ObjectAnswers(acc, section, items, i, page_name, page_label, is_repeating, section_name) ==
    IF i > Len(items) THEN acc
    ELSE ObjectAnswers(ObjectAnswer(acc, section, items[i].key, items[i].value,
                                    page_name, page_label, is_repeating, section_name),
                       section, items, i + 1, page_name, page_label,
                       is_repeating, section_name)

extract_from_section(acc, section, page_name, page_label, is_repeating, section_name) ==
    IF acc.error THEN acc
    ELSE IF ~IsDict(section) THEN Raised   \* section.get: AttributeError
    ELSE
      LET answers == Get(section, "answers")
      IN IF Truthy(answers) /\ IsList(answers)
         THEN ArrayAnswers(acc, section, answers.val, 1, page_name, page_label,
                           is_repeating, section_name)
         ELSE IF Truthy(answers) /\ IsDict(answers)
         THEN ObjectAnswers(acc, section, answers.val, 1, page_name, page_label,
                            is_repeating, section_name)
         ELSE acc

\* the sections of one sub-page of the first row of a Repeat section
RECURSIVE SubSections(_, _, _, _, _, _)
SubSections(acc, sub_sections, i, page_name, page_label, section_name) ==
    IF i > Len(sub_sections) THEN acc
    ELSE SubSections(extract_from_section(acc, sub_sections[i], page_name, page_label,
                                          TRUE, section_name),
                     sub_sections, i + 1, page_name, page_label, section_name)

RECURSIVE SubPages(_, _, _, _, _, _)
SubPages(acc, sub_pages, i, page_name, page_label, section_name) ==
    IF i > Len(sub_pages) THEN acc
    ELSE LET sub_page == sub_pages[i]
             next ==
                 IF acc.error THEN acc
                 ELSE IF ~IsDict(sub_page) THEN Raised   \* sub_page.get: AttributeError
                 ELSE IF Truthy(Get(sub_page, "sections")) /\ IsList(Get(sub_page, "sections"))
                 THEN SubSections(acc, Get(sub_page, "sections").val, 1,
                                  page_name, page_label, section_name)
                 ELSE acc
         IN SubPages(next, sub_pages, i + 1, page_name, page_label, section_name)

\* a faulty variant of SampledRow: the last row in place of the first
SampledRowLast(rows) == rows[Len(rows)]

\* the row whose structure a Repeat section is sampled from
SampledRow(rows) == rows[1]

\* the body of the loop over a page's sections (array and object form alike)
PageSection(acc, section, page_name, page_label) ==
    IF acc.error THEN acc
    ELSE IF ~IsDict(section) THEN Raised   \* section.get: AttributeError
    ELSE IF Get(section, "type") = JStr("Repeat")
    THEN LET section_name == PyOr(PyOr(Get(section, "name"), Get(section, "label")),
                                  JStr("Repeating Section"))
             rows == Get(section, "rows")
         IN IF Truthy(rows) /\ IsList(rows) /\ Len(rows.val) > 0
            THEN LET row == SampledRow(rows.val)
                 IN IF ~IsDict(row) THEN Raised   \* row.get: AttributeError
                    ELSE IF Truthy(Get(row, "pages")) /\ IsList(Get(row, "pages"))
                    THEN SubPages(acc, Get(row, "pages").val, 1,
                                  page_name, page_label, section_name)
                    ELSE acc
            ELSE acc
    ELSE extract_from_section(acc, section, page_name, page_label, FALSE, JNull)

RECURSIVE PageSections(_, _, _, _, _)
PageSections(acc, sections, i, page_name, page_label) ==
    IF i > Len(sections) THEN acc
    ELSE PageSections(PageSection(acc, sections[i], page_name, page_label),
                      sections, i + 1, page_name, page_label)

extract_from_page(acc, page) ==
    IF acc.error THEN acc
    ELSE IF ~IsDict(page) THEN Raised   \* page.get: AttributeError
    ELSE
      LET page_name  == PyOr(PyOr(Get(page, "name"), Get(page, "label")), Get(page, "title"))
          page_label == PyOr(Get(page, "label"), Get(page, "name"))
          sections   == Get(page, "sections")
      IN IF Truthy(sections) /\ IsList(sections)
         THEN PageSections(acc, sections.val, 1, page_name, page_label)
         ELSE IF Truthy(sections) /\ IsDict(sections)
         THEN PageSections(acc, DictValues(sections), 1, page_name, page_label)
         ELSE acc

RECURSIVE Pages(_, _, _)
Pages(acc, pages, i) ==
    IF i > Len(pages) THEN acc
    ELSE Pages(extract_from_page(acc, pages[i]), pages, i + 1)

RECURSIVE RootSections(_, _, _)
RootSections(acc, sections, i) ==
    IF i > Len(sections) THEN acc
    ELSE RootSections(extract_from_section(acc, sections[i], JStr("Main Page"),
                                           JStr("main"), FALSE, JNull),
                      sections, i + 1)

\* the field the fallback search appends for a mapping that looks like an answer
FoundField(key, value, path) ==
    LET answer_id   == PyOr(PyOr(Get(value, "label"), Get(value, "id")), JStr(key))
        answer_name == PyOr(PyOr(PyOr(Get(value, "name"), Get(value, "text")),
                                 Get(value, "question")), JStr(key))
        answer_type == PyOr(PyOr(Get(value, "type"), Get(value, "questionType")),
                            JStr("text"))
    IN IF Truthy(answer_id) /\ Truthy(answer_name)
       THEN << [id                |-> Scalar(answer_id),
                clean_id          |-> CleanId(Scalar(answer_id)),
                name              |-> Scalar(answer_name),
                type              |-> Scalar(answer_type),
                page              |-> IF path # "" THEN path ELSE "Unknown",
                section           |-> "Unknown",
                question          |-> Scalar(answer_name),
                path              |-> "answers." \o CleanId(Scalar(answer_id)) \o "[0]",
                repeating_section |-> Missing,
                display_name      |-> Missing,
                unique_id         |-> Missing] >>
       ELSE << >>

RECURSIVE find_form_elements(_, _)
RECURSIVE FindItems(_, _, _)
\* the loop over obj.items(); returns the fields appended to main_fields
FindItems(items, i, path) ==
    IF i > Len(items) THEN << >>
    ELSE LET key   == items[i].key
             value == items[i].value
             here  ==
                 IF Truthy(value) /\ IsDict(value)
                 THEN IF Truthy(Get(value, "label")) \/ Truthy(Get(value, "name"))
                         \/ Truthy(Get(value, "question"))
                      THEN FoundField(key, value, path)
                      ELSE find_form_elements(value,
                               IF path # "" THEN path \o "." \o key ELSE key)
                 ELSE << >>
         IN here \o FindItems(items, i + 1, path)

find_form_elements(obj, path) ==
    IF Truthy(obj) /\ IsDict(obj) THEN FindItems(obj.val, 1, path) ELSE << >>

\* which of the five root structures the if/elif chain takes
RootOption(form_def) ==
    LET pages == Get(form_def, "pages")
    IN IF Truthy(pages) /\ IsList(pages) THEN 1
       ELSE IF Truthy(pages) /\ IsDict(pages) THEN 2
       ELSE IF ~IsDict(GetDefault(form_def, "dataRecord", JDict(<< >>))) THEN 0
       ELSE IF Truthy(Get(GetDefault(form_def, "dataRecord", JDict(<< >>)), "pages")) THEN 3
       ELSE IF Truthy(Get(form_def, "sections")) THEN 4
       ELSE 5

\* the branch of the if/elif chain that handles one root structure
RootStructure(option, form_def) ==
    CASE option = 1 -> Pages(EmptyResult, Get(form_def, "pages").val, 1)
      [] option = 2 -> Pages(EmptyResult, DictValues(Get(form_def, "pages")), 1)
      [] option = 0 -> Raised     \* form_def.get('dataRecord', {}).get: AttributeError
      [] option = 3 ->
           LET data_pages == Get(Get(form_def, "dataRecord"), "pages")
           IN IF IsList(data_pages) THEN Pages(EmptyResult, data_pages.val, 1)
              ELSE IF IsDict(data_pages)
              THEN Pages(EmptyResult, DictValues(data_pages), 1)
              ELSE Raised         \* data_pages.items: AttributeError
      [] option = 4 ->
           LET sections == Get(form_def, "sections")
           IN IF IsList(sections) THEN RootSections(EmptyResult, sections.val, 1)
              ELSE IF IsDict(sections)
              THEN RootSections(EmptyResult, DictValues(sections), 1)
              ELSE Raised         \* sections.items: AttributeError
      [] option = 5 ->
           [EmptyResult EXCEPT !.main_fields = find_form_elements(form_def, "")]

parse_form_fields_separated(form_def) ==
    IF ~IsDict(form_def) THEN Raised          \* form_def.get: AttributeError
    ELSE LET acc == RootStructure(RootOption(form_def), form_def)
         IN IF acc.error THEN Raised ELSE acc

\* parse_form_fields: the legacy parser, all fields combined
parse_form_fields(form_def) ==
    LET r == parse_form_fields_separated(form_def)
    IN r.main_fields \o r.repeating_fields

----------------------------------------------------------------------------
(* Tab 2 / Tab 4: "Ensure all fields have unique_id" *)

\* a faulty variant of UniqueId: the counter is not consulted
UniqueIdAlwaysOne(base_id, seen_ids) ==
    IF base_id \notin DOMAIN seen_ids THEN base_id ELSE base_id \o "_1"

\* the unique_id a field gets when seen_ids holds the counters of the fields before it
UniqueId(base_id, seen_ids) ==
    IF base_id \notin DOMAIN seen_ids
    THEN base_id
    ELSE base_id \o "_" \o ToString(seen_ids[base_id] + 1)

\* seen_ids after the field
Seen(base_id, seen_ids) ==
    IF base_id \notin DOMAIN seen_ids
    THEN seen_ids @@ (base_id :> 0)
    ELSE [seen_ids EXCEPT ![base_id] = @ + 1]

RECURSIVE UniqueIdLoop(_, _, _)
UniqueIdLoop(fs, i, seen_ids) ==
    IF i > Len(fs) THEN fs
    ELSE UniqueIdLoop([fs EXCEPT ![i].unique_id = UniqueId(fs[i].id, seen_ids)],
                      i + 1, Seen(fs[i].id, seen_ids))

UniqueIdPass(fs) == UniqueIdLoop(fs, 1, << >>)

----------------------------------------------------------------------------
(* The filter compilers *)

\* field.get('unique_id', field['id'])
UniqueOrId(f) == IF f.unique_id = Missing THEN f.id ELSE f.unique_id

\* next((f for f in all_fields if f.get('unique_id', f['id']) == ref), None):
\* the index of the first match, 0 for None
FindField(all_fields, ref) ==
    IF \E i \in 1..Len(all_fields) : UniqueOrId(all_fields[i]) = ref
    THEN CHOOSE i \in 1..Len(all_fields) :
            /\ UniqueOrId(all_fields[i]) = ref
            /\ \A j \in 1..(i - 1) : UniqueOrId(all_fields[j]) # ref
    ELSE 0

\* a faulty variant of Render: exists / not_exists render the value too
RenderWithValueInExists(field_path, operator, value) ==
    CASE operator = "equals"       -> field_path \o " == \"" \o value \o "\""
      [] operator = "not_equals"   -> field_path \o " != \"" \o value \o "\""
      [] operator = "contains"     -> field_path \o "?contains(\"" \o value \o "\")"
      [] operator = "not_contains" -> "!" \o field_path \o "?contains(\"" \o value \o "\")"
      [] operator = "exists"       -> field_path \o "?has_content(\"" \o value \o "\")"
      [] operator = "not_exists"   -> "!" \o field_path \o "?has_content(\"" \o value \o "\")"
      [] OTHER                     -> field_path \o " == \"" \o value \o "\""

\* a faulty variant of Render: exists and not_exists exchanged
RenderSwappedNegation(field_path, operator, value) ==
    CASE operator = "equals"       -> field_path \o " == \"" \o value \o "\""
      [] operator = "not_equals"   -> field_path \o " != \"" \o value \o "\""
      [] operator = "contains"     -> field_path \o "?contains(\"" \o value \o "\")"
      [] operator = "not_contains" -> "!" \o field_path \o "?contains(\"" \o value \o "\")"
      [] operator = "exists"       -> "!" \o field_path \o "?has_content"
      [] operator = "not_exists"   -> field_path \o "?has_content"
      [] OTHER                     -> field_path \o " == \"" \o value \o "\""

\* the if/elif chain over the operator
Render(field_path, operator, value) ==
    CASE operator = "equals"       -> field_path \o " == \"" \o value \o "\""
      [] operator = "not_equals"   -> field_path \o " != \"" \o value \o "\""
      [] operator = "contains"     -> field_path \o "?contains(\"" \o value \o "\")"
      [] operator = "not_contains" -> "!" \o field_path \o "?contains(\"" \o value \o "\")"
      [] operator = "exists"       -> field_path \o "?has_content"
      [] operator = "not_exists"   -> "!" \o field_path \o "?has_content"
      [] OTHER                     -> field_path \o " == \"" \o value \o "\""

\* "Add logic operator for subsequent conditions"; i is enumerate's 0-based index
WithLogic(i, filter_obj, cond) ==
    IF i > 0 /\ filter_obj.logic # ""
    THEN " " \o filter_obj.logic \o " " \o cond
    ELSE cond

\* generate_filter_condition: what one pass of the loop appends to conditions
ConditionOf(i, filter_obj, all_fields, is_repeat) ==
    IF filter_obj.field = "" THEN << >>
    ELSE LET k == FindField(all_fields, filter_obj.field)
         IN IF k = 0 THEN << >>
            ELSE LET field_path == IF is_repeat
                                   THEN "row." \o all_fields[k].clean_id
                                   ELSE all_fields[k].path \o "[0]"
                 IN << WithLogic(i, filter_obj,
                                 Render(field_path, filter_obj.operator, filter_obj.value)) >>

RECURSIVE Join(_)
\* ''.join(conditions)
Join(conditions) ==
    IF conditions = << >> THEN "" ELSE Head(conditions) \o Join(Tail(conditions))

RECURSIVE Conditions(_, _, _, _)
Conditions(fs, i, all_fields, is_repeat) ==
    IF i >= Len(fs) THEN << >>
    ELSE ConditionOf(i, fs[i + 1], all_fields, is_repeat)
         \o Conditions(fs, i + 1, all_fields, is_repeat)

generate_filter_condition(fs, all_fields, is_repeat) ==
    IF fs = << >> THEN "" ELSE Join(Conditions(fs, 0, all_fields, is_repeat))

\* generate_freemarker_template: what one pass of its loop appends to conditions
TemplateConditionOf(i, filter_obj, all_fields) ==
    LET k == FindField(all_fields, filter_obj.field)
    IN IF k = 0 THEN << >>
       ELSE << WithLogic(i, filter_obj,
                         Render(all_fields[k].path, filter_obj.operator, filter_obj.value)) >>

RECURSIVE TemplateConditions(_, _, _)
TemplateConditions(fs, i, all_fields) ==
    IF i >= Len(fs) THEN << >>
    ELSE TemplateConditionOf(i, fs[i + 1], all_fields)
         \o TemplateConditions(fs, i + 1, all_fields)

RECURSIVE JoinWith(_, _)
\* sep.join(cells)
JoinWith(sep, cells) ==
    IF cells = << >> THEN ""
    ELSE IF Len(cells) = 1 THEN cells[1]
    ELSE cells[1] \o sep \o JoinWith(sep, Tail(cells))

\* [field for field in fields if field.get('unique_id', field['id']) in selected]
Selected(all_fields, selected_field_ids) ==
    SelectSeq(all_fields, LAMBDA f : UniqueOrId(f) \in selected_field_ids)

\* field.get("display_name", field["name"])
DisplayName(f) == IF f.display_name = Missing THEN f.name ELSE f.display_name

generate_freemarker_template(all_fields, selected_field_ids, fs) ==
    IF selected_field_ids = {} THEN ""
    ELSE
      LET sel        == Selected(all_fields, selected_field_ids)
          headers    == [i \in 1..Len(sel) |-> "\"" \o DisplayName(sel[i]) \o "\""]
          conditions == TemplateConditions(fs, 0, all_fields)
          data       == [i \in 1..Len(sel) |-> "\"${(" \o sel[i].path \o ")!\"\"}\""]
      IN JoinWith(",", headers) \o "\n"
         \o (IF fs # << >> /\ conditions # << >>
             THEN "<#if " \o Join(conditions) \o ">\n" ELSE "")
         \o JoinWith(",", data) \o "\n"
         \o (IF fs # << >> /\ \E i \in 1..Len(fs) : fs[i].field # ""
             THEN "</#if>\n" ELSE "")

----------------------------------------------------------------------------
(* generate_dual_templates *)

\* the UTF-8 byte-order mark "\\ufeff", written as its escape
BOM == "\\ufeff"

RECURSIVE Concat(_)
Concat(parts) == IF parts = << >> THEN "" ELSE Head(parts) \o Concat(Tail(parts))

\* [f for f in fs if f['id'] in ids]
SelectedById(fs, ids) == SelectSeq(fs, LAMBDA f : f.id \in ids)

\* the main form template
MainTemplate(main_fields, selected_main_ids, main_cond) ==
    LET selected_main == SelectedById(main_fields, selected_main_ids)
    IN BOM \o "\"SubmissionID\",\"FormName\",\"SubmissionDate\""
       \o Concat([i \in 1..Len(selected_main) |-> ",\"" \o selected_main[i].name \o "\""])
       \o "\n"
       \o (IF main_cond # "" THEN "<#if " \o main_cond \o ">\n" ELSE "")
       \o "\"${dataRecord.submissionId}\",\"${dataRecord.form.name}\",\"${dataRecord.serverReceiveDate}\""
       \o Concat([i \in 1..Len(selected_main) |->
                    ",=\"${(" \o selected_main[i].path \o "[0])!\"\"}\""])
       \o "\n"
       \o (IF main_cond # "" THEN "</#if>\n" ELSE "")

\* a faulty variant of SectionBlock: a section without selected fields gets no block
SectionBlockSelectedOnly(section_name, selected_repeat, repeat_cond) ==
    LET mine == SelectSeq(selected_repeat, LAMBDA f : f.repeating_section = section_name)
    IN IF mine = << >> THEN ""
       ELSE "<#list answers." \o RemoveSpaces(section_name) \o " as row>\n"
            \o (IF repeat_cond # "" THEN "<#if " \o repeat_cond \o ">\n" ELSE "")
            \o "\"${dataRecord.submissionId}\",\"" \o section_name \o "\",${row?index + 1}"
            \o Concat([i \in 1..Len(mine) |-> ",=\"${(row." \o mine[i].clean_id \o ")!\"\"}\""])
            \o "\n"
            \o (IF repeat_cond # "" THEN "</#if>\n" ELSE "")
            \o "</#list>\n"

\* a faulty variant of SectionBlock: every selected field gets a cell in every block
SectionBlockAllFields(section_name, selected_repeat, repeat_cond) ==
    "<#list answers." \o RemoveSpaces(section_name) \o " as row>\n"
    \o (IF repeat_cond # "" THEN "<#if " \o repeat_cond \o ">\n" ELSE "")
    \o "\"${dataRecord.submissionId}\",\"" \o section_name \o "\",${row?index + 1}"
    \o Concat([i \in 1..Len(selected_repeat) |->
                 ",=\"${(row." \o selected_repeat[i].clean_id \o ")!\"\"}\""])
    \o "\n"
    \o (IF repeat_cond # "" THEN "</#if>\n" ELSE "")
    \o "</#list>\n"

\* the block of one repeating section
SectionBlock(section_name, selected_repeat, repeat_cond) ==
    LET mine == SelectSeq(selected_repeat, LAMBDA f : f.repeating_section = section_name)
    IN "<#list answers." \o RemoveSpaces(section_name) \o " as row>\n"
       \o (IF repeat_cond # "" THEN "<#if " \o repeat_cond \o ">\n" ELSE "")
       \o "\"${dataRecord.submissionId}\",\"" \o section_name \o "\",${row?index + 1}"
       \o Concat([i \in 1..Len(mine) |-> ",=\"${(row." \o mine[i].clean_id \o ")!\"\"}\""])
       \o "\n"
       \o (IF repeat_cond # "" THEN "</#if>\n" ELSE "")
       \o "</#list>\n"

\* the repeating sections template
RepeatTemplate(repeating_fields, selected_repeat_ids, repeating_sections, repeat_cond) ==
    LET selected_repeat == SelectedById(repeating_fields, selected_repeat_ids)
    IN BOM \o "\"SubmissionID\",\"SectionName\",\"RowNumber\""
       \o Concat([i \in 1..Len(selected_repeat) |-> ",\"" \o selected_repeat[i].name \o "\""])
       \o "\n"
       \o Concat([i \in 1..Len(repeating_sections) |->
                    SectionBlock(repeating_sections[i].name, selected_repeat, repeat_cond)])

generate_dual_templates(main_fields, repeating_fields, selected_main_ids, selected_repeat_ids, repeating_sections, main_filters, repeat_filters) ==
    LET main_cond   == generate_filter_condition(main_filters, main_fields, FALSE)
        repeat_cond == generate_filter_condition(repeat_filters, repeating_fields, TRUE)
    IN [main_condition   |-> main_cond,
        repeat_condition |-> repeat_cond,
        main_template    |-> MainTemplate(main_fields, selected_main_ids, main_cond),
        repeat_template  |-> RepeatTemplate(repeating_fields, selected_repeat_ids,
                                            repeating_sections, repeat_cond)]

\* Tab 4, "Categorize selected fields": the raw ids of the selected fields of one kind
SelectedIds(all_fields, selected, repeating) ==
    {all_fields[i].id : i \in {j \in 1..Len(all_fields) :
        /\ UniqueOrId(all_fields[j]) \in selected
        /\ (all_fields[j].repeating_section \notin {None, Missing, ""}) = repeating}}

----------------------------------------------------------------------------
(* The form definitions that are uploaded *)

MaxAnswers == 3

\* answer entries: a plain id, a repeated id and its suffixed look-alike, a
\* label with a space, a uniqueId longer than 19 characters, an empty id
AnswerPool ==
    << JDict(<< KV("id", JStr("Q1")), KV("name", JStr("Name")) >>),
       JDict(<< KV("id", JStr("A")), KV("name", JStr("a")) >>),
       JDict(<< KV("id", JStr("A_1")), KV("name", JStr("b")) >>),
       JDict(<< KV("label", JStr("First Name")), KV("text", JStr("First")) >>),
       JDict(<< KV("uniqueId", JStr("Inspection Checklist Item 7 Long")),
                KV("question", JStr("Long?")), KV("type", JStr("Dropdown")) >>),
       JDict(<< KV("id", JStr("")), KV("name", JStr("x")) >>) >>

AnswerLists ==
    UNION {{[i \in 1..n |-> AnswerPool[c[i]]] : c \in [1..n -> 1..Len(AnswerPool)]}
           : n \in 0..MaxAnswers}

\* the keys of an `answers` object, in document order
PlainKeys == [i \in 1..(MaxAnswers + 1) |-> "k" \o ToString(i)]
EmptyFirstKey == [i \in 1..(MaxAnswers + 1) |-> IF i = 1 THEN "" ELSE "k" \o ToString(i)]
Object(keys, values) == JDict([i \in 1..Len(values) |-> KV(keys[i], values[i])])

PageOf(name, sections) == JDict(<< KV("name", JStr(name)), KV("sections", sections) >>)
SectionOf(name, answers) == JDict(<< KV("name", JStr(name)), KV("answers", answers) >>)

ArrayDoc(as) ==
    JDict(<< KV("pages", JList(<< PageOf("P1", JList(<< SectionOf("S1", JList(as)) >>)) >>)) >>)

ObjectDoc(keys, as) ==
    JDict(<< KV("pages", JDict(<< KV("p1",
        JDict(<< KV("label", JStr("P1")),
                 KV("sections", JDict(<< KV("s1",
                     JDict(<< KV("label", JStr("S1")),
                              KV("answers", Object(keys, as)) >>)) >>)) >>)) >>)) >>)

RowOf(as) ==
    JDict(<< KV("pages", JList(<< JDict(<< KV("sections",
        JList(<< JDict(<< KV("answers", JList(as)) >>) >>)) >>) >>)) >>)

RepeatDoc(as) ==
    JDict(<< KV("pages", JList(<< PageOf("P1", JList(<<
        SectionOf("S1", JList(<< AnswerPool[1] >>)),
        JDict(<< KV("type", JStr("Repeat")), KV("name", JStr("Line Items")),
                 KV("rows", JList(<< RowOf(as), RowOf(<< AnswerPool[2] >>) >>)) >>)
        >>)) >>)) >>)

DataRecordDoc(as) ==
    JDict(<< KV("dataRecord", JDict(<< KV("pages",
        JList(<< PageOf("P1", JList(<< SectionOf("S1", JList(as)) >>)) >>)) >>)) >>)

SectionsDoc(as) == JDict(<< KV("sections", JList(<< SectionOf("S1", JList(as)) >>)) >>)

SearchDoc(as) == JDict(<< KV("form", JDict(<< KV("body", Object(PlainKeys, as)) >>)) >>)

AnswerDocs ==
    {ArrayDoc(as) : as \in AnswerLists}
    \cup {ObjectDoc(PlainKeys, as) : as \in AnswerLists}
    \cup {ObjectDoc(EmptyFirstKey, as) : as \in AnswerLists}
    \cup {RepeatDoc(as) : as \in AnswerLists}
    \cup {DataRecordDoc(as) : as \in AnswerLists}
    \cup {SectionsDoc(as) : as \in AnswerLists}
    \cup {SearchDoc(as) : as \in AnswerLists}

\* a key the document does not have
NoKey == [kind |-> "absent", val |-> 0]
Item(k, v) == IF v = NoKey THEN << >> ELSE << KV(k, v) >>

OneAnswer(id) == JList(<< JDict(<< KV("id", JStr(id)), KV("name", JStr("n " \o id)) >>) >>)
OnePage(name, id) == PageOf(name, JList(<< SectionOf("S", OneAnswer(id)) >>))

PagesValues ==
    {NoKey, JNull, JStr("none"), JList(<< >>), JDict(<< >>),
     JList(<< OnePage("P1", "Q1") >>), JDict(<< KV("p1", OnePage("P1", "Q1")) >>),
     JList(<< JStr("page") >>)}

DataRecordValues ==
    {NoKey, JNull, JStr("none"), JDict(<< >>),
     JDict(<< KV("pages", JList(<< >>)) >>),
     JDict(<< KV("pages", JStr("none")) >>),
     JDict(<< KV("pages", JList(<< OnePage("DP", "D1") >>)) >>),
     JDict(<< KV("pages", JDict(<< KV("p1", OnePage("DP", "D1")) >>)) >>)}

SectionsValues ==
    {NoKey, JStr("none"), JList(<< >>), JDict(<< >>),
     JList(<< SectionOf("RS", OneAnswer("S1")) >>),
     JDict(<< KV("s1", SectionOf("RS", OneAnswer("S1"))) >>)}

ExtraValues ==
    {NoKey, JDict(<< KV("name", JStr("Extra")), KV("id", JStr("X1")) >>),
     JList(<< JDict(<< KV("name", JStr("Extra")) >>) >>)}

ShapeDocs ==
    {JDict(Item("pages", p) \o Item("dataRecord", d) \o Item("sections", s)
           \o Item("extra", e))
     : p \in PagesValues, d \in DataRecordValues, s \in SectionsValues, e \in ExtraValues}

\* ids that differ and are equal once cleaned (by the spaces, by the cut at 19
\* characters), an entry under the empty key that carries no id and no name,
\* and an entry of an `answers` object that carries an id and no name
EdgeDocs ==
    {ArrayDoc(<< AnswerPool[4],
                 JDict(<< KV("id", JStr("FirstName")), KV("name", JStr("Given")) >>) >>),
     ArrayDoc(<< JDict(<< KV("id", JStr("Inspection Checklist Item 7")), KV("name", JStr("i7")) >>),
                 JDict(<< KV("id", JStr("Inspection Checklist Item 8")), KV("name", JStr("i8")) >>) >>),
     ObjectDoc(EmptyFirstKey, << JDict(<< KV("type", JStr("Dropdown")) >>) >>),
     ObjectDoc(PlainKeys, << JDict(<< KV("id", JStr("Q9")) >>) >>)}

MaxRows == 2

\* the answers of the rows a Repeat section may hold
RowAnswers ==
    << << AnswerPool[1] >>, << AnswerPool[2], AnswerPool[4] >>, << AnswerPool[3] >> >>

RowLists ==
    UNION {{[i \in 1..n |-> RowAnswers[c[i]]] : c \in [1..n -> 1..Len(RowAnswers)]}
           : n \in 0..MaxRows}

\* a main section and a Repeat section of the given rows, each row given by its answers
RepeatRowsDoc(rows) ==
    JDict(<< KV("pages", JList(<< PageOf("P1", JList(<<
        SectionOf("S1", JList(<< AnswerPool[1] >>)),
        JDict(<< KV("type", JStr("Repeat")), KV("name", JStr("Line Items")),
                 KV("rows", JList([i \in 1..Len(rows) |-> RowOf(rows[i])])) >>)
        >>)) >>)) >>)

RowDocs == {RepeatRowsDoc(rows) : rows \in RowLists}

Docs == AnswerDocs \cup ShapeDocs \cup EdgeDocs \cup RowDocs

----------------------------------------------------------------------------
(* Tab 1 and Tab 2 of one run of the script *)

\* generate_* have not run
NoOutput ==
    /\ main_condition = "" /\ repeat_condition = ""
    /\ main_template = "" /\ repeat_template = "" /\ generated_template = ""

\* Tab 5 has not run: json_payload = "", payload_fields = [], field_mappings = {}
NoPayload ==
    /\ json_payload = [kind |-> "undecodable", val |-> 0]
    /\ payload_fields = << >>
    /\ field_mappings = << >>
    /\ json_template = ""

\* "Select All" ticks every field at once: the unique_ids in catalog order, each once
RECURSIVE CatalogOrder(_)
CatalogOrder(fs) ==
    IF fs = << >> THEN << >>
    ELSE LET rest == CatalogOrder(SubSeq(fs, 1, Len(fs) - 1))
             u    == UniqueOrId(fs[Len(fs)])
         IN IF \E i \in 1..Len(rest) : rest[i] = u THEN rest ELSE Append(rest, u)

Init ==
    /\ form_definition = JNull
    /\ parsed = EmptyResult
    /\ fields = << >>
    /\ filters = << >>
    /\ selected_fields = {}
    /\ selection_order = << >>
    /\ NoOutput
    /\ NoPayload
    /\ pc = "start"

\* Tab 1: the uploaded file is decoded, stored, and parsed for the summary
UploadFormDefinition(json_data) ==
    /\ pc = "start"
    /\ form_definition' = json_data
    /\ parsed' = parse_form_fields_separated(json_data)
    /\ fields' = << >>
    /\ pc' = "tab1"
    /\ UNCHANGED <<filters, selected_fields, selection_order, main_condition,
                   repeat_condition, main_template, repeat_template, generated_template,
                   payloadVars>>

\* Tab 2: the stored form definition is parsed again and every field gets its unique_id
SelectFieldsTab ==
    /\ pc = "tab1"
    /\ Truthy(form_definition)
    /\ parsed' = parse_form_fields_separated(form_definition)
    /\ fields' = UniqueIdPass(parsed'.main_fields \o parsed'.repeating_fields)
    /\ pc' = "tab2"
    /\ UNCHANGED <<form_definition, filters, selected_fields, selection_order,
                   main_condition, repeat_condition, main_template, repeat_template,
                   generated_template, payloadVars>>

Next ==
    \/ \E json_data \in Docs : UploadFormDefinition(json_data)
    \/ SelectFieldsTab

Spec == Init /\ [][Next]_vars

----------------------------------------------------------------------------
(* Tab 4: the templates generated from a catalog, a selection and filter criteria *)

MaxFilters == 2

\* the six operators of the filter tab, and one it does not offer
Operators ==
    {"equals", "not_equals", "contains", "not_contains", "exists", "not_exists",
     "starts_with"}

\* no field chosen, a main field, a repeating field
FilterRefs == {"", "Q1", "R1"}
Values == {"", "yes"}
Logics == {"and", "or"}

Criterion(f, op, v, l) == [field |-> f, operator |-> op, value |-> v, logic |-> l]

\* every operator on a main and on a repeating field; the criterion the filter
\* tab adds (nothing chosen yet); criteria joined by "or", with and without a value
Criteria ==
    {Criterion(f, op, "yes", "and") : f \in FilterRefs \ {""}, op \in Operators}
    \cup {Criterion("", "equals", "", "and"), Criterion("", "not_exists", "yes", "or")}
    \cup {Criterion(f, "exists", v, l) : f \in FilterRefs \ {""}, v \in Values \ {"yes"},
                                         l \in Logics \ {"and"}}

FilterLists == UNION {[1..n -> Criteria] : n \in 0..MaxFilters}

\* a form with a main field Q1 and a repeating section holding R1; a form with
\* main fields only; a form whose answers object has an entry under the empty key
CompileDocs ==
    {RepeatDoc(<< JDict(<< KV("id", JStr("R1")), KV("name", JStr("Item")) >>) >>),
     ArrayDoc(<< AnswerPool[1], AnswerPool[2] >>),
     ObjectDoc(EmptyFirstKey, << AnswerPool[6], AnswerPool[1] >>)}

\* Tab 4 splits the catalog again into main_fields and repeating_fields
MainCatalog == SubSeq(fields, 1, Len(parsed.main_fields))
RepeatCatalog == SubSeq(fields, Len(parsed.main_fields) + 1, Len(fields))

\* the call of Tab 4's "Generate Dual Templates" button
DualTemplates(main_filters, repeat_filters) ==
    generate_dual_templates(MainCatalog, RepeatCatalog,
                            SelectedIds(fields, selected_fields, FALSE),
                            SelectedIds(fields, selected_fields, TRUE),
                            parsed.repeating_sections, main_filters, repeat_filters)

\* the call of Tab 4's "Generate Template" button, on a fresh parse_form_fields
SingleTemplate(fs) ==
    generate_freemarker_template(parse_form_fields(form_definition), selected_fields, fs)

InitCompile ==
    /\ form_definition \in CompileDocs
    /\ parsed = parse_form_fields_separated(form_definition)
    /\ fields = UniqueIdPass(parsed.main_fields \o parsed.repeating_fields)
    /\ selected_fields = {UniqueOrId(fields[i]) : i \in 1..Len(fields)}
    /\ selection_order = CatalogOrder(fields)
    /\ filters \in FilterLists
    /\ NoOutput
    /\ NoPayload
    /\ pc = "tab4"

\* the criteria are held once and given as main_filters and as repeat_filters
GenerateDualTemplates ==
    /\ pc = "tab4"
    /\ Len(parsed.repeating_fields) > 0
    /\ selected_fields # {}
    /\ LET out == DualTemplates(filters, filters)
       IN /\ main_condition' = out.main_condition
          /\ repeat_condition' = out.repeat_condition
          /\ main_template' = out.main_template
          /\ repeat_template' = out.repeat_template
    /\ pc' = "dual"
    /\ UNCHANGED <<form_definition, parsed, fields, filters, selected_fields,
                   selection_order, generated_template, payloadVars>>

GenerateTemplate ==
    /\ pc = "tab4"
    /\ Len(parsed.repeating_fields) = 0
    /\ selected_fields # {}
    /\ generated_template' = SingleTemplate(filters)
    /\ pc' = "single"
    /\ UNCHANGED <<form_definition, parsed, fields, filters, selected_fields,
                   selection_order, main_condition, repeat_condition, main_template,
                   repeat_template, payloadVars>>

NextCompile == GenerateDualTemplates \/ GenerateTemplate

SpecCompile == InitCompile /\ [][NextCompile]_vars

----------------------------------------------------------------------------
(* Tab 2 to Tab 4: fields are ticked one by one, then the templates are generated *)

Ans(id, name) == JDict(<< KV("id", JStr(id)), KV("name", JStr(name)) >>)

RepeatSection(name, as) ==
    JDict(<< KV("type", JStr("Repeat")), KV("name", JStr(name)),
             KV("rows", JList(<< RowOf(as) >>)) >>)

\* two main fields sharing the id Q1 and two repeating sections, of two fields and
\* of one, sharing the id R1
TwoSectionsDoc ==
    JDict(<< KV("pages", JList(<< PageOf("P1", JList(<<
        SectionOf("S1", JList(<< Ans("Q1", "Name"), Ans("Q1", "Other") >>)),
        RepeatSection("Line Items", << Ans("R1", "Item"), Ans("R2", "Qty") >>),
        RepeatSection("Parts", << Ans("R1", "Part") >>) >>)) >>)) >>)

\* main fields only, two of them sharing the id A
SharedIdDoc == ArrayDoc(<< AnswerPool[1], Ans("A", "a"), Ans("A", "b") >>)

\* one page, one unnamed section: an answer Q1 / Name and an answer whose id has
\* spaces and more than 19 other characters
PlainDoc ==
    JDict(<< KV("pages", JList(<< JDict(<< KV("name", JStr("P1")),
        KV("sections", JList(<< JDict(<< KV("answers",
            JList(<< Ans("Q1", "Name"), Ans("Order Number 2024 Long Identifier", "Order") >>))
        >>) >>)) >>) >>)) >>)

SelectDocs == {TwoSectionsDoc, SharedIdDoc, PlainDoc}

\* no criterion; one on a main field; one on a repeating field; one on a
\* repeating field whose id no other section has; one on a field of no form
SelectFilters ==
    {<< >>,
     << Criterion("Q1", "equals", "yes", "and") >>,
     << Criterion("R1", "exists", "", "and") >>,
     << Criterion("R2", "equals", "yes", "and") >>,
     << Criterion("ZZ", "equals", "yes", "and") >>}

InitSelect ==
    /\ form_definition \in SelectDocs
    /\ parsed = parse_form_fields_separated(form_definition)
    /\ fields = UniqueIdPass(parsed.main_fields \o parsed.repeating_fields)
    /\ selected_fields = {}
    /\ selection_order = << >>
    /\ filters \in SelectFilters
    /\ NoOutput
    /\ NoPayload
    /\ pc = "tab2"

\* Tab 2: the checkbox of fields[i] is ticked or unticked
ToggleField(i) ==
    /\ pc = "tab2"
    /\ LET field_unique_id == UniqueOrId(fields[i])
       IN IF field_unique_id \notin selected_fields
          THEN /\ selected_fields' = selected_fields \cup {field_unique_id}
               /\ selection_order' = Append(selection_order, field_unique_id)
          ELSE /\ selected_fields' = selected_fields \ {field_unique_id}
               /\ selection_order' = SelectSeq(selection_order, LAMBDA u : u # field_unique_id)
    /\ UNCHANGED <<form_definition, parsed, fields, filters, main_condition,
                   repeat_condition, main_template, repeat_template, generated_template,
                   payloadVars, pc>>

\* Tab 2: "Select All"
SelectAll ==
    /\ pc = "tab2"
    /\ selected_fields' = {UniqueOrId(fields[i]) : i \in 1..Len(fields)}
    /\ selection_order' = CatalogOrder(fields)
    /\ UNCHANGED <<form_definition, parsed, fields, filters, main_condition,
                   repeat_condition, main_template, repeat_template, generated_template,
                   payloadVars, pc>>

\* Tab 2: "Clear All"
ClearAll ==
    /\ pc = "tab2"
    /\ selected_fields' = {}
    /\ selection_order' = << >>
    /\ UNCHANGED <<form_definition, parsed, fields, filters, main_condition,
                   repeat_condition, main_template, repeat_template, generated_template,
                   payloadVars, pc>>

\* Tab 4: the form definition is parsed again; with a selection, the fields get
\* their unique_id again (dual mode) and the generate button is shown
TemplatesTab ==
    /\ pc = "tab2"
    /\ selected_fields # {}
    /\ parsed' = parse_form_fields_separated(form_definition)
    /\ fields' = UniqueIdPass(parsed'.main_fields \o parsed'.repeating_fields)
    /\ pc' = "tab4"
    /\ UNCHANGED <<form_definition, filters, selected_fields, selection_order,
                   main_condition, repeat_condition, main_template, repeat_template,
                   generated_template, payloadVars>>

NextSelect ==
    \/ \E i \in 1..Len(fields) : ToggleField(i)
    \/ SelectAll
    \/ ClearAll
    \/ TemplatesTab
    \/ GenerateDualTemplates
    \/ GenerateTemplate

SpecSelect == InitSelect /\ [][NextSelect]_vars

----------------------------------------------------------------------------
(* parse_json_payload and generate_json_payload_template *)

\* a text that json.loads rejects (the initial "" of the text area is one)
Undecodable == [kind |-> "undecodable", val |-> 0]

\* repr(value) of a decoded JSON value
RECURSIVE PyRepr(_)
PyRepr(v) ==
    CASE v.kind = "str"  -> "'" \o v.val \o "'"
      [] v.kind = "num"  -> ToString(v.val)
      [] v.kind = "bool" -> IF v.val THEN "True" ELSE "False"
      [] v.kind = "null" -> "None"
      [] v.kind = "list" -> "[" \o JoinWith(", ", [i \in 1..Len(v.val) |-> PyRepr(v.val[i])]) \o "]"
      [] v.kind = "dict" ->
            "{" \o JoinWith(", ", [i \in 1..Len(v.val) |->
                        "'" \o v.val[i].key \o "': " \o PyRepr(v.val[i].value)]) \o "}"

\* str(value)
PyStr(v) == IF v.kind = "str" THEN v.val ELSE PyRepr(v)

MaxExample == 100

\* str(value)[:100] + "..." if len(str(value)) > 100 else str(value)
Example(v) ==
    IF Len(PyStr(v)) > MaxExample THEN SubSeq(PyStr(v), 1, MaxExample) \o "..." ELSE PyStr(v)

\* the isinstance chain: str, then (int, float), which a bool is too, then bool
DataType(v) ==
    CASE v.kind = "str"             -> "string"
      [] v.kind \in {"num", "bool"} -> "number"
      [] OTHER                      -> "string"

PayloadField(path, type, example, mappable) ==
    [path |-> path, type |-> type, example |-> example, mappable |-> mappable]

\* the records appended so far, and whether an exception was raised
Extracted(fs, error) == [fields |-> fs, error |-> error]

\* extract_fields and the loop over obj.items(), from item i on; the call
\* extract_fields(value, current_path, "object") passes three arguments to a
\* function of two and raises TypeError
RECURSIVE extract_fields(_, _, _)
RECURSIVE ExtractItems(_, _, _, _)
ExtractItems(acc, items, i, path) ==
    IF acc.error \/ i > Len(items) THEN acc
    ELSE LET key          == items[i].key
             value        == items[i].value
             current_path == IF path # "" THEN path \o "." \o key ELSE key
         IN IF IsDict(value)
            THEN Extracted(Append(acc.fields,
                              PayloadField(current_path, "object", Example(value), FALSE)),
                           TRUE)
            ELSE IF IsList(value)
            THEN LET marked == Extracted(Append(acc.fields,
                                   PayloadField(current_path, "array", Example(value), FALSE)),
                                   FALSE)
                 IN ExtractItems(
                        IF value.val # << >>
                        THEN extract_fields(marked, value.val[1], current_path \o "[0]")
                        ELSE marked,
                        items, i + 1, path)
            ELSE ExtractItems(
                     Extracted(Append(acc.fields,
                                 PayloadField(current_path, DataType(value), PyStr(value), TRUE)),
                               FALSE),
                     items, i + 1, path)

extract_fields(acc, obj, path) ==
    IF acc.error THEN acc
    ELSE IF IsDict(obj) THEN ExtractItems(acc, obj.val, 1, path)
    ELSE IF IsList(obj) /\ obj.val # << >> THEN extract_fields(acc, obj.val[1], path \o "[0]")
    ELSE acc

\* json.JSONDecodeError and every other exception give []
parse_json_payload(json_payload_text) ==
    IF json_payload_text = Undecodable THEN << >>
    ELSE LET r == extract_fields(Extracted(<< >>, FALSE), json_payload_text, "")
         IN IF r.error THEN << >> ELSE r.fields

\* path.split('.')
DotPositions(path) == {i \in 1..Len(path) : SubSeq(path, i, i) = "."}

\* the whole path in place of its last part
LastPartWholePath(path) == path

\* path_parts[-1]
LastPart(path) ==
    IF DotPositions(path) = {} THEN path
    ELSE SubSeq(path, (CHOOSE i \in DotPositions(path) :
                          \A j \in DotPositions(path) : j <= i) + 1, Len(path))

\* next((f for f in form_fields if f['id'] == form_field_id), None): its index, 0 for None
FormFieldById(form_fields, form_field_id) ==
    IF \E i \in 1..Len(form_fields) : form_fields[i].id = form_field_id
    THEN CHOOSE i \in 1..Len(form_fields) :
            /\ form_fields[i].id = form_field_id
            /\ \A j \in 1..(i - 1) : form_fields[j].id # form_field_id
    ELSE 0

Mapping(path, form_field_id) == [path |-> path, id |-> form_field_id]

\* nested_mappings: the mappings kept, in the order of field_mappings.items()
NestedMappings(mappings, form_fields) ==
    SelectSeq(mappings, LAMBDA m : m.id # "" /\ FormFieldById(form_fields, m.id) # 0)

\* what the second loop appends for one entry of nested_mappings
MappingEntry(m, form_fields) ==
    LET freemarker_expr == "${(" \o form_fields[FormFieldById(form_fields, m.id)].path
                           \o "[0])!\"\"}"
    IN IF Cardinality(DotPositions(m.path)) = 0
       THEN "  \"" \o m.path \o "\": " \o freemarker_expr
       ELSE "  // Nested path: " \o m.path \o "\n"
            \o "  \"" \o LastPart(m.path) \o "\": " \o freemarker_expr

generate_json_payload_template(fs, mappings, form_fields) ==
    IF mappings = << >> THEN ""
    ELSE LET nested_mappings == NestedMappings(mappings, form_fields)
         IN "{\n"
            \o JoinWith(",\n", [i \in 1..Len(nested_mappings) |->
                                   MappingEntry(nested_mappings[i], form_fields)])
            \o "\n}"

----------------------------------------------------------------------------
(* Tab 5: a sample payload is pasted, its leaves are mapped, the template is generated *)

Obj(items) == JDict(items)

\* sample request bodies: flat ones with a string, a number, a boolean and a
\* null; a nested object; arrays of objects, of strings, empty; an array at the
\* root; a scalar at the root; an object inside an array element; an empty object
Payloads ==
    {Undecodable,
     Obj(<< KV("name", JStr("John")), KV("age", JNum(30)) >>),
     Obj(<< KV("ok", JBool(TRUE)), KV("n", JNull) >>),
     Obj(<< KV("name", JStr("John")), KV("address", Obj(<< KV("street", JStr("Main")) >>)) >>),
     Obj(<< KV("items", JList(<< Obj(<< KV("sku", JStr("a")), KV("q", JNum(1)) >>),
                                 Obj(<< KV("other", JNum(2)) >>) >>)),
            KV("tags", JList(<< JStr("a"), JStr("b") >>)),
            KV("e", JList(<< >>)) >>),
     JList(<< Obj(<< KV("a", JNum(1)) >>) >>),
     JStr("text"),
     Obj(<< KV("x", JNum(1)), KV("l", JList(<< Obj(<< KV("o", Obj(<< KV("k", JNum(1)) >>)) >>) >>)) >>),
     Obj(<< >>)}

PayloadForms == {SharedIdDoc, PlainDoc}

\* Tab 5: fields = parse_form_fields(st.session_state.form_definition), the
\* catalog without the unique_id pass; the form definition does not change on
\* this tab, so the catalog is computed once
FormFields == fields

\* form_field_values = [''] + [field['id'] for field in fields]
FormFieldValues == {""} \cup {FormFields[i].id : i \in 1..Len(FormFields)}

\* mappable_fields = [f for f in st.session_state.payload_fields if f['mappable']]
MappableFields == SelectSeq(payload_fields, LAMBDA f : f.mappable)

\* field_mappings[path] = value: the value of an existing key is replaced where
\* it stands, a new key goes to the end
SetMapping(mappings, path, value) ==
    IF \E i \in 1..Len(mappings) : mappings[i].path = path
    THEN [i \in 1..Len(mappings) |->
             IF mappings[i].path = path THEN Mapping(path, value) ELSE mappings[i]]
    ELSE Append(mappings, Mapping(path, value))

\* the loop over mappable_fields, each select box holding choice[i]
RECURSIVE SetMappings(_, _, _)
SetMappings(mappings, choice, i) ==
    IF i > Len(MappableFields) THEN mappings
    ELSE SetMappings(SetMapping(mappings, MappableFields[i].path, choice[i]), choice, i + 1)

InitPayload ==
    /\ form_definition \in PayloadForms
    /\ parsed = parse_form_fields_separated(form_definition)
    /\ fields = parse_form_fields(form_definition)
    /\ selected_fields = {}
    /\ selection_order = << >>
    /\ filters = << >>
    /\ NoOutput
    /\ json_payload = Undecodable
    /\ payload_fields = << >>
    /\ field_mappings = << >>
    /\ json_template = ""
    /\ pc = "tab5"

\* a faulty variant of PastePayload: the mappings are kept
PastePayloadKeepMappings(json_input) ==
    /\ pc \in {"tab5", "pasted", "mapped", "json"}
    /\ json_input # json_payload
    /\ json_payload' = json_input
    /\ payload_fields' = parse_json_payload(json_input)
    /\ pc' = "pasted"
    /\ UNCHANGED <<form_definition, parsed, fields, filters, selected_fields,
                   selection_order, main_condition, repeat_condition, main_template,
                   repeat_template, generated_template, json_template, field_mappings>>

\* the text area holds another text: it is stored and parsed, the mappings are reset
PastePayload(json_input) ==
    /\ pc \in {"tab5", "pasted", "mapped", "json"}
    /\ json_input # json_payload
    /\ json_payload' = json_input
    /\ payload_fields' = parse_json_payload(json_input)
    /\ field_mappings' = << >>
    /\ pc' = "pasted"
    /\ UNCHANGED <<form_definition, parsed, fields, filters, selected_fields,
                   selection_order, main_condition, repeat_condition, main_template,
                   repeat_template, generated_template, json_template>>

\* a run of the script that shows the select boxes: every mappable path is set
\* to what its select box holds
MapFields(choice) ==
    /\ pc \in {"pasted", "mapped", "json"}
    /\ payload_fields # << >>
    /\ MappableFields # << >>
    /\ field_mappings' = SetMappings(field_mappings, choice, 1)
    /\ pc' = "mapped"
    /\ UNCHANGED <<form_definition, parsed, fields, filters, selected_fields,
                   selection_order, main_condition, repeat_condition, main_template,
                   repeat_template, generated_template, json_payload, payload_fields,
                   json_template>>

\* "Generate JSON Template", shown when mapped_count > 0
GenerateJsonTemplate ==
    /\ pc = "mapped"
    /\ \E i \in 1..Len(field_mappings) : field_mappings[i].id # ""
    /\ json_template' = generate_json_payload_template(payload_fields, field_mappings, FormFields)
    /\ pc' = "json"
    /\ UNCHANGED <<form_definition, parsed, fields, filters, selected_fields,
                   selection_order, main_condition, repeat_condition, main_template,
                   repeat_template, generated_template, json_payload, payload_fields,
                   field_mappings>>

NextPayload ==
    \/ \E json_input \in Payloads : PastePayload(json_input)
    \/ \E choice \in [1..Len(MappableFields) -> FormFieldValues] : MapFields(choice)
    \/ GenerateJsonTemplate

SpecPayload == InitPayload /\ [][NextPayload]_vars

----------------------------------------------------------------------------
(* generate_json_payload_template on mappings of any content and order *)

MaxMappings == 2

\* a root leaf, a leaf of an array element, a leaf two objects deep, a path of no leaf
MapperPaths == {"name", "items[0].sku", "a.b.c", "ghost"}

\* unmapped, two fields of the forms, a field of no form
MapperIds == {"", "Q1", "A", "ZZ"}

MappingLists ==
    {ms \in UNION {[1..n -> {Mapping(path, id) : path \in MapperPaths, id \in MapperIds}]
                   : n \in 0..MaxMappings} :
        \A i, j \in 1..Len(ms) : i # j => ms[i].path # ms[j].path}

InitMapper ==
    /\ form_definition \in PayloadForms
    /\ parsed = parse_form_fields_separated(form_definition)
    /\ fields = parse_form_fields(form_definition)
    /\ selected_fields = {}
    /\ selection_order = << >>
    /\ filters = << >>
    /\ NoOutput
    /\ json_payload \in Payloads \ {Undecodable}
    /\ payload_fields = parse_json_payload(json_payload)
    /\ field_mappings \in MappingLists
    /\ json_template = ""
    /\ pc = "mapper"

\* the call of generate_json_payload_template
CallMapper ==
    /\ pc = "mapper"
    /\ json_template' = generate_json_payload_template(payload_fields, field_mappings, FormFields)
    /\ pc' = "json"
    /\ UNCHANGED <<form_definition, parsed, fields, filters, selected_fields,
                   selection_order, main_condition, repeat_condition, main_template,
                   repeat_template, generated_template, json_payload, payload_fields,
                   field_mappings>>

NextMapper == CallMapper

SpecMapper == InitMapper /\ [][NextMapper]_vars

----------------------------------------------------------------------------
(* A session: files are uploaded one after another, fields are ticked, filters are edited *)

MaxSessionFilters == 1

\* the uploaded files: bytes that are not UTF-8 JSON; two forms without
\* repeating sections that share the id Q1 only; a form whose pages array holds
\* a string; a JSON array
SessionFiles ==
    {Undecodable, PlainDoc, SharedIdDoc,
     JDict(<< KV("pages", JList(<< JStr("page") >>)) >>),
     JList(<< >>)}

\* Tab 1: json.loads raises before the assignment; otherwise the decoded
\* document is stored and then parsed
StoredAfterUpload(file) == IF file = Undecodable THEN form_definition ELSE file

\* Tab 1: the result of parse_form_fields in the try block, Raised when
\* json.loads or the parser raised
ParsedOnUpload(file) ==
    IF file = Undecodable THEN Raised ELSE parse_form_fields_separated(file)

\* Tab 3, single template mode: field_values = [''] + [field['id'] for field in fields]
FieldValues(catalog) == {""} \cup {catalog[i].id : i \in 1..Len(catalog)}

\* Tab 3, single template mode: each filter's select box starts at the index
\* of its field in field_values, at 0 when it is not there, and the filter's
\* field is set to the value at that index
SyncFilters(fs, catalog) ==
    IF catalog = << >> \/ \E i \in 1..Len(catalog) : catalog[i].repeating_section # None
    THEN fs
    ELSE [i \in 1..Len(fs) |->
             [fs[i] EXCEPT !.field = IF @ \in FieldValues(catalog) THEN @ ELSE ""]]

InitSession ==
    /\ form_definition = JNull
    /\ parsed = EmptyResult
    /\ fields = << >>
    /\ filters = << >>
    /\ selected_fields = {}
    /\ selection_order = << >>
    /\ NoOutput
    /\ NoPayload
    /\ pc = "start"

\* a file is put into the uploader and the script runs: Tab 1 decodes, stores
\* and parses it inside try/except; Tab 2 parses the stored form definition
\* again, outside any try, and gives the fields their unique_id; Tab 3 shows
\* the filters
UploadFile(file) ==
    /\ pc \in {"start", "tab2", "crashed"}
    /\ form_definition' = StoredAfterUpload(file)
    /\ parsed' = ParsedOnUpload(file)
    /\ LET again == IF file = Undecodable
                    THEN parse_form_fields_separated(form_definition)
                    ELSE parsed'     \* the same document, parsed a second time
       IN IF ~Truthy(form_definition')
          THEN fields' = << >> /\ filters' = filters /\ pc' = "start"
          ELSE IF again.error
          THEN fields' = << >> /\ filters' = filters /\ pc' = "crashed"
          ELSE /\ fields' = UniqueIdPass(again.main_fields \o again.repeating_fields)
               /\ filters' = SyncFilters(filters, again.main_fields \o again.repeating_fields)
               /\ pc' = "tab2"
    /\ UNCHANGED <<selected_fields, selection_order, main_condition, repeat_condition,
                   main_template, repeat_template, generated_template, payloadVars>>

\* Tab 3, single template mode: "Add Filter"
AddFilter ==
    /\ pc = "tab2"
    /\ fields # << >>
    /\ \A i \in 1..Len(fields) : fields[i].repeating_section = None
    /\ Len(filters) < MaxSessionFilters
    /\ filters' = Append(filters, Criterion("", "equals", "", "and"))
    /\ UNCHANGED <<form_definition, parsed, fields, selected_fields, selection_order,
                   main_condition, repeat_condition, main_template, repeat_template,
                   generated_template, payloadVars, pc>>

\* Tab 3, single template mode: the field select box of filter i is set
SetFilterField(i, value) ==
    /\ pc = "tab2"
    /\ fields # << >>
    /\ \A k \in 1..Len(fields) : fields[k].repeating_section = None
    /\ filters' = [filters EXCEPT ![i].field = value]
    /\ UNCHANGED <<form_definition, parsed, fields, selected_fields, selection_order,
                   main_condition, repeat_condition, main_template, repeat_template,
                   generated_template, payloadVars, pc>>

\* Tab 3, single template mode: the remove button of filter i
RemoveFilter(i) ==
    /\ pc = "tab2"
    /\ fields # << >>
    /\ \A k \in 1..Len(fields) : fields[k].repeating_section = None
    /\ filters' = [k \in 1..(Len(filters) - 1) |-> IF k < i THEN filters[k] ELSE filters[k + 1]]
    /\ UNCHANGED <<form_definition, parsed, fields, selected_fields, selection_order,
                   main_condition, repeat_condition, main_template, repeat_template,
                   generated_template, payloadVars, pc>>

NextSession ==
    \/ \E file \in SessionFiles : UploadFile(file)
    \/ \E i \in 1..Len(fields) : ToggleField(i)
    \/ SelectAll
    \/ ClearAll
    \/ AddFilter
    \/ \E i \in 1..Len(filters), value \in FieldValues(fields) : SetFilterField(i, value)
    \/ \E i \in 1..Len(filters) : RemoveFilter(i)

SpecSession == InitSession /\ [][NextSession]_vars

----------------------------------------------------------------------------
(* Properties of the extractor and of the unique_id pass *)

AllParsed == parsed.main_fields \o parsed.repeating_fields

\* the root structure the first-match rule names: the first key, in the order
\* pages array, pages mapping, dataRecord.pages, sections, that is present
\* with a value of the kind the rule asks for; 5 when there is none
NamedOption(form_def) ==
    LET pages      == Get(form_def, "pages")
        dataRecord == Get(form_def, "dataRecord")
        sections   == Get(form_def, "sections")
    IN IF IsList(pages) THEN 1
       ELSE IF IsDict(pages) THEN 2
       ELSE IF IsDict(dataRecord)
               /\ (IsList(Get(dataRecord, "pages")) \/ IsDict(Get(dataRecord, "pages")))
       THEN 3
       ELSE IF IsList(sections) \/ IsDict(sections) THEN 4
       ELSE 5

\* C1: for every document the fields returned are exactly those of the first
\* root structure, in the order pages array, pages mapping, dataRecord.pages,
\* root sections, fallback search, whose key is present with the required kind
\* of value; no field comes from a later structure.
C1_FirstPresentStructureWins ==
    (pc = "tab1" /\ IsDict(form_definition) /\ ~parsed.error) =>
        parsed = RootStructure(NamedOption(form_definition), form_definition)

EmptyContainer(v) == v = JList(<< >>) \/ v = JDict(<< >>)

\* C2: a document whose pages container is empty, or whose root sections
\* container is empty (and which has no pages or dataRecord key that would be
\* tried before it), yields no main field, no repeating field and no error,
\* whatever its other keys hold.
C2_EmptyContainersYieldNothing ==
    (/\ pc = "tab1"
     /\ IsDict(form_definition)
     /\ \/ EmptyContainer(Get(form_definition, "pages"))
        \/ /\ ~HasKey(form_definition, "pages")
           /\ ~HasKey(form_definition, "dataRecord")
           /\ EmptyContainer(Get(form_definition, "sections")))
    => parsed = EmptyResult

Chars(s) == [i \in 1..Len(s) |-> SubSeq(s, i, i)]
NonSpaceChars(s) == SelectSeq(Chars(s), LAMBDA c : c # " ")
Min(a, b) == IF a <= b THEN a ELSE b

\* clean is raw without its spaces, cut to its first 19 characters
IsCleanOf(clean, raw) ==
    /\ Len(clean) = Min(19, Len(NonSpaceChars(raw)))
    /\ \A i \in 1..Len(clean) : SubSeq(clean, i, i) = NonSpaceChars(raw)[i]

\* C3: every field the extractor returns (main or repeating, whichever root
\* structure it came from) has a clean_id of at most 19 characters, without a
\* space, equal to the raw id with its spaces removed and cut to 19 characters.
C3_CleanId ==
    \A i \in 1..Len(AllParsed) :
        /\ Len(AllParsed[i].clean_id) <= 19
        /\ \A k \in 1..Len(AllParsed[i].clean_id) :
              SubSeq(AllParsed[i].clean_id, k, k) # " "
        /\ IsCleanOf(AllParsed[i].clean_id, AllParsed[i].id)

\* a field whose raw id has a space and more than 19 other characters was extracted
C3_Witness ==
    \E i \in 1..Len(AllParsed) :
        /\ Len(NonSpaceChars(AllParsed[i].id)) > 19
        /\ Len(NonSpaceChars(AllParsed[i].id)) < Len(AllParsed[i].id)
        /\ Len(AllParsed[i].clean_id) = 19

\* how many fields before position i carry the raw id of the field at i
Earlier(fs, i) == Cardinality({j \in 1..(i - 1) : fs[j].id = fs[i].id})

\* C4: after the unique_id pass over main_fields + repeating_fields, the first
\* field with a given raw id has unique_id = raw id and the n-th later one has
\* unique_id = raw id + "_" + n; nothing else about the fields changes.
C4_UniqueIdSuffix ==
    pc = "tab2" =>
        /\ Len(fields) = Len(AllParsed)
        /\ \A i \in 1..Len(fields) :
              /\ fields[i] = [AllParsed[i] EXCEPT !.unique_id = fields[i].unique_id]
              /\ fields[i].unique_id =
                    IF Earlier(fields, i) = 0
                    THEN fields[i].id
                    ELSE fields[i].id \o "_" \o ToString(Earlier(fields, i))

\* a raw id occurred three times and its third occurrence was numbered
C4_Witness ==
    /\ pc = "tab2"
    /\ \E i \in 1..Len(fields) :
          Earlier(fields, i) = 2 /\ fields[i].unique_id = fields[i].id \o "_2"

\* C5: after the unique_id pass no two fields of the catalog have the same unique_id.
C5_UniqueIdsDistinct ==
    pc = "tab2" =>
        \A i, j \in 1..Len(fields) :
            i # j => fields[i].unique_id # fields[j].unique_id

----------------------------------------------------------------------------
(* Properties of the filter compilers *)

StartsWith(s, prefix) ==
    Len(prefix) <= Len(s) /\ SubSeq(s, 1, Len(prefix)) = prefix

Contains(s, sub) ==
    \E i \in 1..(Len(s) - Len(sub) + 1) : SubSeq(s, i, i + Len(sub) - 1) = sub

\* the positions at which sub occurs in s
Occurrences(s, sub) ==
    {i \in 1..(Len(s) - Len(sub) + 1) : SubSeq(s, i, i + Len(sub) - 1) = sub}

\* the number of occurrences of sub in s
Count(s, sub) == Cardinality(Occurrences(s, sub))

\* the position of the first occurrence of sub in s, 0 when there is none
IndexOf(s, sub) ==
    IF Occurrences(s, sub) = {} THEN 0
    ELSE CHOOSE i \in Occurrences(s, sub) : \A j \in Occurrences(s, sub) : i <= j

\* the catalog a compiler searches, and the path it renders for the field at k
CatalogOf(scope) ==
    CASE scope = "main"   -> MainCatalog
      [] scope = "repeat" -> RepeatCatalog
      [] scope = "single" -> parse_form_fields(form_definition)

FieldPathOf(scope, k) ==
    CASE scope = "main"   -> MainCatalog[k].path \o "[0]"
      [] scope = "repeat" -> "row." \o RepeatCatalog[k].clean_id
      [] scope = "single" -> parse_form_fields(form_definition)[k].path

\* the scopes compiled by the step that ran last
Scopes ==
    CASE pc = "dual"   -> {"main", "repeat"}
      [] pc = "single" -> {"single"}
      [] OTHER         -> {}

\* the compiled expression of a scope, as the generated text shows it: the text
\* of its <#if ...> line, "" when there is no such line
\* s up to its first occurrence of stop (all of s when there is none)
UpTo(s, stop) ==
    IF IndexOf(s, stop) = 0 THEN s ELSE SubSeq(s, 1, IndexOf(s, stop) - 1)

\* s after its first occurrence of start ("" when there is none)
After(s, start) ==
    IF IndexOf(s, start) = 0 THEN ""
    ELSE SubSeq(s, IndexOf(s, start) + Len(start), Len(s))

IfLine(template) ==
    IF Contains(template, "<#if ") THEN UpTo(After(template, "<#if "), ">\n") ELSE ""

Compiled(scope) ==
    CASE scope = "main"   -> main_condition
      [] scope = "repeat" -> repeat_condition
      [] scope = "single" -> IfLine(generated_template)

\* the criterion names a field and the catalog of the scope has it
Resolvable(c, scope) == c.field # "" /\ FindField(CatalogOf(scope), c.field) # 0

\* the operator table as the specification words it
SpecRendering(field_path, operator, value) ==
    CASE operator = "not_equals"   -> field_path \o " != \"" \o value \o "\""
      [] operator = "contains"     -> field_path \o " CONTAINS(\"" \o value \o "\")"
      [] operator = "not_contains" -> "NOT(" \o field_path \o " CONTAINS(\"" \o value \o "\"))"
      [] operator = "exists"       -> "HAS_CONTENT(" \o field_path \o ")"
      [] operator = "not_exists"   -> "NOT(HAS_CONTENT(" \o field_path \o "))"
      [] OTHER                     -> field_path \o " == \"" \o value \o "\""

\* the operator table in FreeMarker's built-ins
FreeMarkerRendering(field_path, operator, value) ==
    CASE operator = "not_equals"   -> field_path \o " != \"" \o value \o "\""
      [] operator = "contains"     -> field_path \o "?contains(\"" \o value \o "\")"
      [] operator = "not_contains" -> "!" \o field_path \o "?contains(\"" \o value \o "\")"
      [] operator = "exists"       -> field_path \o "?has_content"
      [] operator = "not_exists"   -> "!" \o field_path \o "?has_content"
      [] OTHER                     -> field_path \o " == \"" \o value \o "\""

\* C7 as stated: a sole resolvable criterion compiles to its row of the table
\* equals -> fieldPath == "value", not_equals -> fieldPath != "value",
\* contains -> fieldPath CONTAINS("value"), not_contains -> NOT(fieldPath
\* CONTAINS("value")), exists -> HAS_CONTENT(fieldPath), not_exists ->
\* NOT(HAS_CONTENT(fieldPath)), anything else -> the equals rendering.
C7_SpecOperatorTable ==
    \A scope \in Scopes :
        (Len(filters) = 1 /\ Resolvable(filters[1], scope)) =>
            Compiled(scope) =
                SpecRendering(FieldPathOf(scope, FindField(CatalogOf(scope), filters[1].field)),
                              filters[1].operator, filters[1].value)

\* C7, amended: every resolvable criterion is rendered by the table equals ->
\* fieldPath == "value", not_equals -> fieldPath != "value", contains ->
\* fieldPath?contains("value"), not_contains -> !fieldPath?contains("value"),
\* exists -> fieldPath?has_content, not_exists -> !fieldPath?has_content,
\* anything else -> the equals rendering; a sole criterion compiles to exactly
\* its rendering, so a sole not_exists on F compiles to !fieldPath(F)?has_content.
C7_FreeMarkerOperatorTable ==
    \A scope \in Scopes :
        /\ \A i \in 1..Len(filters) :
              Resolvable(filters[i], scope) =>
                  Contains(Compiled(scope),
                           FreeMarkerRendering(
                               FieldPathOf(scope, FindField(CatalogOf(scope), filters[i].field)),
                               filters[i].operator, filters[i].value))
        /\ (Len(filters) = 1 /\ Resolvable(filters[1], scope)) =>
              Compiled(scope) =
                  FreeMarkerRendering(
                      FieldPathOf(scope, FindField(CatalogOf(scope), filters[1].field)),
                      filters[1].operator, filters[1].value)

\* a sole not_exists criterion on the main field Q1 was compiled
C7_Witness ==
    /\ pc = "dual"
    /\ Len(filters) = 1
    /\ filters[1].field = "Q1"
    /\ filters[1].operator = "not_exists"
    /\ main_condition = "!answers.Q1[0]?has_content"

\* the criteria with the value of every exists / not_exists criterion replaced
WithExistsValue(fs, v) ==
    [i \in 1..Len(fs) |->
        IF fs[i].operator \in {"exists", "not_exists"}
        THEN [fs[i] EXCEPT !.value = v]
        ELSE fs[i]]

\* C8: what is compiled does not depend on the value of an exists or
\* not_exists criterion: the same criteria with any other value in those
\* criteria give the same conditions and templates, and the value of a sole
\* exists / not_exists criterion occurs nowhere in the compiled expression.
C8_ExistsIgnoresValue ==
    /\ pc = "dual" =>
          \A v \in Values \cup {"no"} :
              LET out == DualTemplates(WithExistsValue(filters, v), WithExistsValue(filters, v))
              IN /\ out.main_condition = main_condition
                 /\ out.repeat_condition = repeat_condition
                 /\ out.main_template = main_template
                 /\ out.repeat_template = repeat_template
    /\ pc = "single" =>
          \A v \in Values \cup {"no"} :
              SingleTemplate(WithExistsValue(filters, v)) = generated_template
    /\ \A scope \in Scopes :
          (/\ Len(filters) = 1
           /\ filters[1].operator \in {"exists", "not_exists"}
           /\ filters[1].value # "")
          => ~Contains(Compiled(scope), filters[1].value)

\* an exists criterion that carries a value was compiled into a condition
C8_Witness ==
    /\ pc = "dual"
    /\ \E i \in 1..Len(filters) :
          /\ filters[i].operator = "exists"
          /\ filters[i].value = "yes"
          /\ Resolvable(filters[i], "main")
    /\ Contains(main_condition, "?has_content")
    /\ Contains(main_template, "<#if ")

\* C9: a compiled expression that is not empty never begins with a connective:
\* the first rendered fragment carries no " <connective> " prefix, also when
\* the criteria before it were skipped.
C9_NoLeadingConnective ==
    \A scope \in Scopes :
        \A l \in Logics : ~StartsWith(Compiled(scope), " " \o l \o " ")

\* the fragments of the resolvable criteria, one after the other
RECURSIVE ResolvableFragments(_, _, _)
ResolvableFragments(fs, i, scope) ==
    IF i > Len(fs) THEN ""
    ELSE (IF Resolvable(fs[i], scope)
          THEN WithLogic(i - 1, fs[i],
                         Render(FieldPathOf(scope, FindField(CatalogOf(scope), fs[i].field)),
                                fs[i].operator, fs[i].value))
          ELSE "")
         \o ResolvableFragments(fs, i + 1, scope)

TemplatesOf(scope) ==
    CASE scope = "main"   -> main_template
      [] scope = "repeat" -> repeat_template
      [] scope = "single" -> generated_template

\* C10: a criterion whose field reference is empty or matches no catalog field
\* contributes nothing: the compiled expression is the concatenation of the
\* fragments of the resolvable criteria alone, and when that is empty no
\* conditional line (<#if ...> or </#if>) is emitted.
C10_UnresolvableCriteriaSkipped ==
    \A scope \in Scopes :
        /\ Compiled(scope) = ResolvableFragments(filters, 1, scope)
        /\ ResolvableFragments(filters, 1, scope) = "" =>
              /\ ~Contains(TemplatesOf(scope), "<#if")
              /\ ~Contains(TemplatesOf(scope), "</#if>")

----------------------------------------------------------------------------
(* Properties of the generated templates *)

\* C11: in every generated document the number of conditional-close lines
\* </#if> equals the number of conditional-open lines <#if ...>, and there is
\* an open line exactly when the compiled filter expression is not empty, for
\* every filter list, also one whose criteria name no field of the catalog.
C11_ConditionalLinesPaired ==
    \A scope \in Scopes :
        /\ Count(TemplatesOf(scope), "</#if>\n") = Count(TemplatesOf(scope), "<#if ")
        /\ Contains(TemplatesOf(scope), "<#if ") <=> Compiled(scope) # ""

\* the Tab 2 catalog field that carries the unique_id u
FieldOf(u) == fields[FindField(fields, u)]

\* no other field of the Tab 2 catalog has the raw id of the field at i
RawIdUnshared(i) == \A j \in 1..Len(fields) : j # i => fields[j].id # fields[i].id

HeaderCell(f) == "\"" \o DisplayName(f) \o "\""
DataCell(f) == "\"${(" \o f.path \o ")!\"\"}\""

\* C12: in the single template the i-th header cell and the i-th data cell are
\* those of the i-th field ticked, whatever the order of the catalog (checked
\* for selections among fields whose raw id no other field shares).
C12_ColumnsInSelectionOrder ==
    (/\ pc = "single"
     /\ \A i \in 1..Len(fields) :
           UniqueOrId(fields[i]) \in selected_fields => RawIdUnshared(i))
    => LET sel == [i \in 1..Len(selection_order) |-> FieldOf(selection_order[i])]
       IN /\ StartsWith(generated_template,
                        JoinWith(",", [i \in 1..Len(sel) |-> HeaderCell(sel[i])]) \o "\n")
          /\ Contains(generated_template,
                      "\n" \o JoinWith(",", [i \in 1..Len(sel) |-> DataCell(sel[i])]) \o "\n")

\* the fields of the Tab 2 catalog whose unique_id the user ticked, in catalog order
Ticked(fs) == SelectSeq(fs, LAMBDA f : f.unique_id \in selected_fields)

\* C13: a catalog field has a header cell and a data cell in the single
\* template, the main document or the repeating document exactly when its
\* unique_id is in the selection; of two fields sharing a raw id, only the
\* ticked one has a column.
C13_ColumnsAreTheSelection ==
    /\ pc = "single" =>
          LET sel == Ticked(fields)
          IN /\ StartsWith(generated_template,
                           JoinWith(",", [i \in 1..Len(sel) |-> HeaderCell(sel[i])]) \o "\n")
             /\ Count(generated_template, "\"${(") = Len(sel)
    /\ pc = "dual" =>
          LET sel_main   == Ticked(MainCatalog)
              sel_repeat == Ticked(RepeatCatalog)
          IN /\ StartsWith(main_template,
                    BOM \o "\"SubmissionID\",\"FormName\",\"SubmissionDate\""
                    \o Concat([i \in 1..Len(sel_main) |-> ",\"" \o sel_main[i].name \o "\""])
                    \o "\n")
             /\ Count(main_template, ",=\"${(") = Len(sel_main)
             /\ StartsWith(repeat_template,
                    BOM \o "\"SubmissionID\",\"SectionName\",\"RowNumber\""
                    \o Concat([i \in 1..Len(sel_repeat) |-> ",\"" \o sel_repeat[i].name \o "\""])
                    \o "\n")
             /\ Count(repeat_template, ",=\"${(row.") = Len(sel_repeat)

EndsWith(s, suffix) ==
    Len(suffix) <= Len(s) /\ SubSeq(s, Len(s) - Len(suffix) + 1, Len(s)) = suffix

ListOpen(section_name) == "<#list answers." \o RemoveSpaces(section_name) \o " as row>\n"

\* the text of template t after the iteration-open line of section_name, up to
\* the next iteration-open line
BlockOf(t, section_name) == UpTo(After(t, ListOpen(section_name)), "<#list ")

\* template t has one iteration block per registry entry, in registry order,
\* each closed by one </#list> line before the next one opens
OneBlockPerSection(t, repeating_sections) ==
    /\ Count(t, "<#list ") = Len(repeating_sections)
    /\ Count(t, "</#list>\n") = Len(repeating_sections)
    /\ \A i \in 1..Len(repeating_sections) :
          /\ IndexOf(t, ListOpen(repeating_sections[i].name)) > 0
          /\ Count(BlockOf(t, repeating_sections[i].name), "</#list>\n") = 1
          /\ EndsWith(BlockOf(t, repeating_sections[i].name), "</#list>\n")
          /\ \A j \in 1..(i - 1) :
                IndexOf(t, ListOpen(repeating_sections[j].name))
                    < IndexOf(t, ListOpen(repeating_sections[i].name))

\* C14: for a registry of n repeating sections the repeating document has
\* exactly n <#list ... as row> lines and n </#list> lines, paired and in
\* registry order, for the selection made and also for the empty selection.
C14_OneBlockPerSection ==
    pc = "dual" =>
        /\ OneBlockPerSection(repeat_template, parsed.repeating_sections)
        /\ OneBlockPerSection(
               generate_dual_templates(MainCatalog, RepeatCatalog, {}, {},
                                       parsed.repeating_sections, filters, filters).repeat_template,
               parsed.repeating_sections)

\* two repeating sections, no repeating field selected, two blocks emitted
C14_Witness ==
    /\ pc = "dual"
    /\ SelectedIds(fields, selected_fields, TRUE) = {}
    /\ Len(parsed.repeating_sections) = 2
    /\ Count(repeat_template, "<#list ") = 2
    /\ Count(repeat_template, "</#list>\n") = 2

\* the repeating fields the emitter was given as selected (by raw id), in catalog order
GivenRepeat ==
    SelectSeq(RepeatCatalog, LAMBDA f : f.id \in SelectedIds(fields, selected_fields, TRUE))

\* C15: the data line of the block of section S is the submission id, the
\* literal name S, the 1-based row index and one cell row.<clean_id> for each
\* field given to the emitter as selected whose repeating_section is S, in
\* catalog order; the block has no other cell.
C15_SectionDataLine ==
    pc = "dual" =>
        \A i \in 1..Len(parsed.repeating_sections) :
            LET S    == parsed.repeating_sections[i].name
                mine == SelectSeq(GivenRepeat, LAMBDA f : f.repeating_section = S)
            IN /\ Contains(BlockOf(repeat_template, S),
                      "\"${dataRecord.submissionId}\",\"" \o S \o "\",${row?index + 1}"
                      \o Concat([k \in 1..Len(mine) |->
                                   ",=\"${(row." \o mine[k].clean_id \o ")!\"\"}\""])
                      \o "\n")
               /\ Count(BlockOf(repeat_template, S), "${(row.") = Len(mine)

\* R2 of "Line Items" and R1 of "Parts" are selected: the line of "Parts" has the
\* cell of R1 alone
C15_Witness ==
    /\ pc = "dual"
    /\ {"R2", "R1_1"} \subseteq selected_fields
    /\ Contains(repeat_template,
                "\"${dataRecord.submissionId}\",\"Parts\",${row?index + 1},=\"${(row.R1)!\"\"}\"\n")
    /\ Contains(repeat_template, ",=\"${(row.R2)!\"\"}\"\n")

\* C16: an answer with id X and name N of a non-repeating section of a
\* pages-array document is a main field with clean_id = X without spaces, cut
\* to 19 characters, and path = answers.<clean_id>; ticking that field alone,
\* with no filter, gives in single mode exactly the line "N" and the line
\* "${(answers.<clean_id>)!""}".
C16_SingleFieldEndToEnd ==
    (pc = "single" /\ filters = << >> /\ Len(selection_order) = 1) =>
        LET f == FieldOf(selection_order[1])
        IN /\ IsCleanOf(f.clean_id, f.id)
           /\ f.path = "answers." \o f.clean_id
           /\ generated_template =
                 "\"" \o f.name \o "\"\n" \o "\"${(answers." \o f.clean_id \o ")!\"\"}\"\n"

\* C17: two extracted fields whose raw ids differ have different paths, also
\* when their ids are equal once the spaces are removed and the id is cut to 19
\* characters.
C17_DistinctIdsDistinctPaths ==
    (pc = "tab1" /\ ~parsed.error) =>
        \A i, j \in 1..Len(AllParsed) :
            AllParsed[i].id # AllParsed[j].id => AllParsed[i].path # AllParsed[j].path

\* C20: no extracted field has an empty raw id or an empty name: an answer
\* entry whose id or name resolves to nothing is skipped, in an answers array
\* and in an answers mapping (also for an entry under the empty key).
C20_NoEmptyIdOrName ==
    (pc = "tab1" /\ ~parsed.error) =>
        \A i \in 1..Len(AllParsed) :
            /\ AllParsed[i].id \notin {"", None}
            /\ AllParsed[i].name \notin {"", None}

----------------------------------------------------------------------------
(* Properties of the payload mapper *)

\* a node of the sample document: its path, whether it is an object, an array
\* or a scalar leaf, and whether it can be mapped
Node(path, class, mappable) == [path |-> path, class |-> class, mappable |-> mappable]

\* the nodes reached by recursive descent: an object-valued key and then its
\* children under dotted paths, an array-valued key and then what its first
\* element holds, a scalar leaf
RECURSIVE Descent(_, _)
RECURSIVE DescentItems(_, _, _)
DescentItems(items, i, path) ==
    IF i > Len(items) THEN << >>
    ELSE LET key   == items[i].key
             value == items[i].value
             here  == IF path # "" THEN path \o "." \o key ELSE key
         IN (IF IsDict(value)
             THEN << Node(here, "object", FALSE) >> \o Descent(value, here)
             ELSE IF IsList(value)
             THEN << Node(here, "array", FALSE) >>
                  \o (IF value.val # << >> THEN Descent(value.val[1], here \o "[0]") ELSE << >>)
             ELSE << Node(here, "leaf", TRUE) >>)
            \o DescentItems(items, i + 1, path)

Descent(obj, path) ==
    IF IsDict(obj) THEN DescentItems(obj.val, 1, path)
    ELSE IF IsList(obj) /\ obj.val # << >> THEN Descent(obj.val[1], path \o "[0]")
    ELSE << >>

\* the node a record of payload_fields stands for
NodeOf(f) ==
    Node(f.path, IF f.type \in {"object", "array"} THEN f.type ELSE "leaf", f.mappable)

\* C18: the records of a decodable sample document are the nodes reached by
\* recursive descent, one record per node: object-valued keys as non-mappable
\* records of type object followed by their children, array-valued keys as
\* non-mappable records of type array with only the first element descended
\* into, scalar leaves as mappable records; so the leaves of a nested object
\* are in the result.
C18_OneRecordPerNode ==
    json_payload # Undecodable =>
        /\ Len(payload_fields) = Len(Descent(json_payload, ""))
        /\ {NodeOf(payload_fields[i]) : i \in 1..Len(payload_fields)}
               = {Descent(json_payload, "")[i] : i \in 1..Len(Descent(json_payload, ""))}

\* the part of path after its last dot, the whole path when it has no dot
LastSegment(path) ==
    CHOOSE t \in {SubSeq(path, k, Len(path)) : k \in 1..(Len(path) + 1)} :
        /\ ~Contains(t, ".")
        /\ t = path \/ EndsWith(path, "." \o t)

\* the mappings that give an entry: a non-empty field id that is the id of a catalog field
Kept ==
    {i \in 1..Len(field_mappings) :
        /\ field_mappings[i].id # ""
        /\ \E k \in 1..Len(fields) : fields[k].id = field_mappings[i].id}

\* the null-coalescing reference to the first catalog field of that id
Reference(id) ==
    LET k == CHOOSE k \in 1..Len(fields) :
                 /\ fields[k].id = id
                 /\ \A j \in 1..(k - 1) : fields[j].id # id
    IN "${(" \o fields[k].path \o "[0])!\"\"}"

\* the entry of mapping i
EntryLine(i) ==
    "  \"" \o LastSegment(field_mappings[i].path) \o "\": "
    \o Reference(field_mappings[i].id)

\* C19: the generated payload template holds exactly one entry per mapping
\* whose field id is non-empty and is the id of a catalog field, in the order
\* of the mappings, each keyed by the last dot-separated segment of the leaf
\* path and valued by the null-coalescing reference to the mapped field;
\* mappings with an empty or unknown field id give no entry.
C19_OneEntryPerResolvedMapping ==
    pc = "json" =>
        /\ Count(json_template, "\": ${(") = Cardinality(Kept)
        /\ \A i \in Kept : Occurrences(json_template, EntryLine(i)) # {}
        /\ \A i, j \in Kept :
              i < j => \E p \in Occurrences(json_template, EntryLine(i)),
                          q \in Occurrences(json_template, EntryLine(j)) : p < q

\* two mappings in an order that is not the order of any payload: the leaf of
\* an array element mapped to a catalog field, then a root leaf mapped to a
\* field of no form; the template holds the one entry, keyed sku
C19_Witness ==
    /\ pc = "json"
    /\ field_mappings = << Mapping("items[0].sku", "Q1"), Mapping("name", "ZZ") >>
    /\ Kept = {1}
    /\ Occurrences(json_template, "  \"sku\": ${(answers.Q1[0])!\"\"}") # {}

----------------------------------------------------------------------------
(* Properties of the extractor on malformed and unusual documents *)

\* the first value of vs that Python takes as true, the last one when none is
RECURSIVE FirstOf(_)
FirstOf(vs) ==
    IF Len(vs) = 1 \/ Truthy(Head(vs)) THEN Head(vs) ELSE FirstOf(Tail(vs))

\* the identifier, name and type of an answer entry; key is the mapping key,
\* null when answers is an array
ResolvedId(answer, key) ==
    FirstOf(<< Get(answer, "label"), Get(answer, "id"), Get(answer, "uniqueId"), key >>)

ResolvedName(answer, key) ==
    FirstOf(<< Get(answer, "name"), Get(answer, "text"), Get(answer, "question"),
               ResolvedId(answer, key) >>)

ResolvedType(answer) ==
    FirstOf(<< Get(answer, "type"), Get(answer, "questionType"), JStr("text") >>)

Resolved(answer, key) ==
    [id   |-> Scalar(ResolvedId(answer, key)),
     name |-> Scalar(ResolvedName(answer, key)),
     type |-> Scalar(ResolvedType(answer))]

\* the raw id, name and type of the fields of a result
Triples(fs) == [i \in 1..Len(fs) |-> [id |-> fs[i].id, name |-> fs[i].name, type |-> fs[i].type]]

\* the entries of an answers list that carry a label, an id or a uniqueId
Identified(as) ==
    SelectSeq(as, LAMBDA a : Truthy(ResolvedId(a, JNull)))

\* C21: identifier, name and type are resolved alike for array-form and
\* mapping-form answers: the identifier is the first non-empty of label, id,
\* uniqueId and then the mapping key, the name the first non-empty of name,
\* text, question and then the identifier, the type the first non-empty of
\* type, questionType and then "text"; so when every entry carries a label, an
\* id or a uniqueId, the mapping form gives the raw ids, names and types the
\* array form gives.
C21_SameResolutionInBothForms ==
    pc = "tab1" =>
        \A as \in AnswerLists \cup {<< JDict(<< KV("id", JStr("Q9")) >>) >>} :
            /\ form_definition = ArrayDoc(as)
                  => Triples(parsed.main_fields)
                         = [i \in 1..Len(Identified(as)) |-> Resolved(Identified(as)[i], JNull)]
            /\ (form_definition = ObjectDoc(PlainKeys, as) /\ Identified(as) = as)
                  => Triples(parsed.main_fields)
                         = [i \in 1..Len(as) |-> Resolved(as[i], JStr(PlainKeys[i]))]

\* C22: the fields of a Repeat section depend on the first element of its rows
\* only: the result is the result of the document cut to its first row, each
\* answer of the first row gives exactly one field of the repeating list, under
\* the section's name, and a Repeat section of zero rows gives no field and no
\* registry entry.
C22_FirstRowOnly ==
    pc = "tab1" =>
        \A rows \in RowLists :
            form_definition = RepeatRowsDoc(rows) =>
                IF rows = << >>
                THEN parsed.repeating_fields = << >> /\ parsed.repeating_sections = << >>
                ELSE /\ parsed = parse_form_fields_separated(RepeatRowsDoc(<< rows[1] >>))
                     /\ Triples(parsed.repeating_fields)
                            = [i \in 1..Len(rows[1]) |-> Resolved(rows[1][i], JNull)]
                     /\ \A i \in 1..Len(parsed.repeating_fields) :
                            parsed.repeating_fields[i].repeating_section = "Line Items"

\* two rows of different answers: the two fields of the first row, none of the second
C22_Witness ==
    /\ pc = "tab1"
    /\ form_definition = RepeatRowsDoc(<< RowAnswers[2], RowAnswers[3] >>)
    /\ Len(parsed.repeating_fields) = 2
    /\ \A i \in 1..2 : parsed.repeating_fields[i].id # "A_1"

\* a repeating_section that is None, or a field dict without the key, which
\* field.get('repeating_section') reads as None
NullSection(f) == f.repeating_section \in {None, Missing}

\* C23: in every result of parse_form_fields_separated each field of the
\* repeating list has a non-null repeating_section that is the key of exactly
\* one registry entry, each registry key is the repeating_section of at least
\* one repeating field, each field of the main list has a null
\* repeating_section, and the fallback search gives an empty repeating list
\* and an empty registry.
C23_RegistryMatchesRepeatingFields ==
    (pc = "tab1" /\ ~parsed.error) =>
        /\ \A i \in 1..Len(parsed.repeating_fields) :
              /\ ~NullSection(parsed.repeating_fields[i])
              /\ Cardinality({k \in 1..Len(parsed.repeating_sections) :
                     parsed.repeating_sections[k].name
                         = parsed.repeating_fields[i].repeating_section}) = 1
        /\ \A k \in 1..Len(parsed.repeating_sections) :
              \E i \in 1..Len(parsed.repeating_fields) :
                  parsed.repeating_fields[i].repeating_section
                      = parsed.repeating_sections[k].name
        /\ \A i \in 1..Len(parsed.main_fields) : NullSection(parsed.main_fields[i])
        /\ RootOption(form_definition) = 5 =>
              parsed.repeating_fields = << >> /\ parsed.repeating_sections = << >>

\* a main field and two repeating fields of one section, one registry entry
C23_Witness ==
    /\ pc = "tab1"
    /\ Len(parsed.main_fields) = 1
    /\ Len(parsed.repeating_fields) = 2
    /\ Len(parsed.repeating_sections) = 1
    /\ parsed.repeating_sections[1].name = "Line Items"

\* a mapping that carries a non-empty label, name or question
FieldLike(value) ==
    /\ IsDict(value)
    /\ Truthy(Get(value, "label")) \/ Truthy(Get(value, "name")) \/ Truthy(Get(value, "question"))

\* the pages of the field-like mappings of a document, in document order: the
\* dotted key path from the root ("Unknown" at the root itself); a value that
\* is not field-like is descended into when it is a non-empty mapping and when
\* it is a non-empty array
RECURSIVE FieldLikePages(_, _)
RECURSIVE FieldLikeItems(_, _, _)
RECURSIVE FieldLikeElements(_, _, _)
FieldLikeItems(items, i, path) ==
    IF i > Len(items) THEN << >>
    ELSE LET value == items[i].value
             below == IF path # "" THEN path \o "." \o items[i].key ELSE items[i].key
         IN (IF FieldLike(value) THEN << IF path # "" THEN path ELSE "Unknown" >>
             ELSE FieldLikePages(value, below))
            \o FieldLikeItems(items, i + 1, path)

FieldLikeElements(elements, i, path) ==
    IF i > Len(elements) THEN << >>
    ELSE (IF FieldLike(elements[i]) THEN << path >> ELSE FieldLikePages(elements[i], path))
         \o FieldLikeElements(elements, i + 1, path)

FieldLikePages(obj, path) ==
    IF IsDict(obj) THEN FieldLikeItems(obj.val, 1, path)
    ELSE IF IsList(obj) THEN FieldLikeElements(obj.val, 1, path)
    ELSE << >>

\* C24: the fallback search returns every mapping, at any depth, that carries
\* a non-empty label, name or question, as a main field whose page is the
\* dotted key path from the root and whose section is "Unknown"; it descends
\* into non-empty mappings and into non-empty arrays, so a field-like mapping
\* inside an array is found.
C24_FallbackFindsEveryFieldLikeMapping ==
    (pc = "tab1" /\ IsDict(form_definition) /\ ~parsed.error
     /\ RootOption(form_definition) = 5) =>
        /\ [i \in 1..Len(parsed.main_fields) |-> parsed.main_fields[i].page]
               = FieldLikePages(form_definition, "")
        /\ \A i \in 1..Len(parsed.main_fields) : parsed.main_fields[i].section = "Unknown"

\* the type of a scalar leaf: string, number, boolean, and string for any other scalar
InferredType(v) ==
    CASE v.kind = "str"  -> "string"
      [] v.kind = "num"  -> "number"
      [] v.kind = "bool" -> "boolean"
      [] OTHER           -> "string"

\* a sample document that is an object of scalar leaves only
FlatPayload ==
    /\ json_payload # Undecodable
    /\ IsDict(json_payload)
    /\ \A i \in 1..Len(json_payload.val) :
          ~IsDict(json_payload.val[i].value) /\ ~IsList(json_payload.val[i].value)

\* C25: parse_json_payload records a string leaf with type string, a number
\* leaf with type number, a boolean leaf with type boolean, and any other
\* scalar (null) with type string.
C25_ScalarTypeInferred ==
    FlatPayload =>
        /\ Len(payload_fields) = Len(json_payload.val)
        /\ \A i \in 1..Len(payload_fields) :
              /\ payload_fields[i].path = json_payload.val[i].key
              /\ payload_fields[i].type = InferredType(json_payload.val[i].value)

\* C26: parse_form_fields_separated never raises for a form definition that is
\* a JSON mapping: an entry in the position of a page, a section or an answer
\* that is not a mapping, or a pages / sections / answers of an unexpected
\* kind, is skipped and the call returns its field lists.
C26_NeverRaisesOnMapping ==
    (pc = "tab1" /\ IsDict(form_definition)) => ~parsed.error

----------------------------------------------------------------------------
(* Properties of the row-scope conditional *)

\* the repeating fields a criterion of the filter list resolves to
FilteredRepeatFields ==
    {k \in 1..Len(RepeatCatalog) :
        \E i \in 1..Len(filters) :
            /\ filters[i].field # ""
            /\ FindField(RepeatCatalog, filters[i].field) = k}

\* section S has a field of that clean id
SectionHas(S, clean_id) ==
    \E k \in 1..Len(RepeatCatalog) :
        RepeatCatalog[k].repeating_section = S /\ RepeatCatalog[k].clean_id = clean_id

\* C27: the <#if ...> line inside the iteration block of section S names only
\* fields of S: a repeat filter on a field of another repeating section gives
\* no row.<clean_id> term in the block of S.
C27_RowConditionalOfOwnSection ==
    pc = "dual" =>
        \A i \in 1..Len(parsed.repeating_sections) :
            \A k \in FilteredRepeatFields :
                LET S == parsed.repeating_sections[i].name
                IN ~SectionHas(S, RepeatCatalog[k].clean_id)
                       => ~Contains(IfLine(BlockOf(repeat_template, S)),
                                    "row." \o RepeatCatalog[k].clean_id)

----------------------------------------------------------------------------
(* Properties of a session *)

\* C28: when the processing of an uploaded file ends in an error (the bytes
\* are not UTF-8 JSON, or the extraction raises), the stored form definition
\* is after the upload what it was before it.
C28_FailedUploadKeepsFormDefinition ==
    [][parsed'.error => form_definition' = form_definition]_vars

\* the identifiers of the fields of the loaded form definition
CurrentIds ==
    {fields[i].id : i \in 1..Len(fields)} \cup {UniqueOrId(fields[i]) : i \in 1..Len(fields)}

\* C29: after any sequence of uploads, selections and filter edits, every
\* identifier in selected_fields and every non-empty field reference of a
\* filter is the identifier of a field of the loaded form definition: nothing
\* selected or filtered against an earlier upload outlives the upload of
\* another document.
C29_SelectionAndFiltersOfCurrentForm ==
    pc = "tab2" =>
        /\ selected_fields \subseteq CurrentIds
        /\ \A i \in 1..Len(filters) : filters[i].field \in {""} \cup CurrentIds

----------------------------------------------------------------------------
(* Properties of the payload builder's session state *)

\* every key of field_mappings is the path of a mappable record of payload_fields
KeysAreMappablePaths ==
    \A i \in 1..Len(field_mappings) :
        \E j \in 1..Len(payload_fields) :
            /\ payload_fields[j].path = field_mappings[i].path
            /\ payload_fields[j].mappable

\* a step that changes the payload text replaces payload_fields by the parse
\* of the new text and empties field_mappings
PayloadChangeResets ==
    json_payload' # json_payload =>
        /\ payload_fields' = parse_json_payload(json_payload')
        /\ field_mappings' = << >>

\* C30: when the sample payload text changes, payload_fields becomes the parse
\* of the new text and field_mappings is emptied before any mapping is shown;
\* so after any sequence of payload edits and mapping choices every key of
\* field_mappings is the path of a mappable record of the current payload_fields.
C30_MappingsFollowPayload ==
    [](KeysAreMappablePaths) /\ [][PayloadChangeResets]_vars

\* mappings of a second payload, made after a template was generated from the
\* mappings of a first one
C30_Witness ==
    /\ pc = "mapped"
    /\ Contains(json_template, "\"name\": ")
    /\ json_payload = Obj(<< KV("ok", JBool(TRUE)), KV("n", JNull) >>)
    /\ Len(field_mappings) = 2
    /\ \E i \in 1..2 : field_mappings[i].id # ""

====
